---- MODULE Spec2Model ----
(***************************************************************************)
(* Verification model of the recommendation pipeline of                    *)
(* musicman35/Text-analytics-music-rec: the curation pipeline              *)
(* (src/agents/curator.py, src/reranker/cohere_reranker.py,                *)
(* src/tools/time_of_day_matcher.py), the long-term profile                *)
(* (src/memory/long_term.py), the stores (src/database/qdrant_storage.py,  *)
(* src/database/sqlite_manager.py) and the orchestrator                    *)
(* (src/recommendation_system.py).                                         *)
(*                                                                         *)
(* Numbers.  Python floats are modelled by exact rationals <<n, d>> in     *)
(* lowest terms (d > 0).  Audio features and semantic scores are drawn in  *)
(* hundredths.  Python dicts are modelled by functions whose DOMAIN is the *)
(* set of keys, so that a missing key is a missing element of the DOMAIN.  *)
(***************************************************************************)
EXTENDS Integers, Sequences, FiniteSets, TLC

VARIABLES
    interactions,          \* Qdrant "interactions" collection: user -> payloads in scroll order
    sqlite_interactions,   \* SQLite "interactions" table: user -> rows in insertion order
    sqlite_recommendations,\* SQLite "recommendations" table: rows in insertion order
    ltm,                   \* the LongTermMemory object constructed last: [user, profile], or None
    now,                   \* the wall clock (datetime.now()), in ticks
    call,                  \* the operation performed last, with its arguments
    ret,                   \* what that operation returned (or the exception it raised)
    frame,                 \* local values of that operation that the claims refer to
    short_term,            \* the ShortTermMemory objects in use: <<user, session>> -> object, or None
    user_memory            \* Qdrant "user memory": user -> what update_user_memory stored, or None

vars == <<interactions, sqlite_interactions, sqlite_recommendations, ltm, now, call, ret, frame,
          short_term, user_memory>>

\* Python's None; only compared with records, functions and sequences
None == <<>>

----------------------------------------------------------------------------
(* Bounds of the model *)

MaxShort == 2          \* candidate lists up to this length are enumerated exhaustively
MaxCandidates == 31    \* longest candidate list handed to the curator
MaxEvents == 3         \* calls of the system in one behaviour
MaxHistory == 6        \* longest interaction history handed to a LongTermMemory object
MaxSessionAdds == 1    \* entries added to each list of a session when two sessions are in use
MaxOverCap == 2        \* entries added to a list of a session beyond its cap
MaxOverScan == 2       \* records a history holds beyond the scan limit of the store
MaxTaste == 3          \* longest history from which the profile a song is matched against is computed
MaxClock == 1          \* the clock stops advancing here

Users == {"u1", "u2"}

----------------------------------------------------------------------------
(* Exact rational arithmetic *)

Abs(x) == IF x < 0 THEN -x ELSE x

Min(a, b) == IF a <= b THEN a ELSE b

Max(a, b) == IF a >= b THEN a ELSE b

RECURSIVE GCD(_, _)
GCD(a, b) == IF b = 0 THEN a ELSE GCD(b, a % b)

Frac(n, d) == LET g == GCD(Abs(n), d) IN <<n \div g, d \div g>>

FAdd(x, y) == Frac(x[1] * y[2] + y[1] * x[2], x[2] * y[2])

FSub(x, y) == Frac(x[1] * y[2] - y[1] * x[2], x[2] * y[2])

FMul(x, y) == Frac(x[1] * y[1], x[2] * y[2])

FDivInt(x, k) == Frac(x[1], x[2] * k)

FLess(x, y) == x[1] * y[2] < y[1] * x[2]

FLeq(x, y) == x[1] * y[2] <= y[1] * x[2]

FAbs(x) == <<Abs(x[1]), x[2]>>

FMax(x, y) == IF FLess(x, y) THEN y ELSE x

FMin(x, y) == IF FLess(y, x) THEN y ELSE x

Zero == <<0, 1>>

One == <<1, 1>>

Half == <<1, 2>>

RECURSIVE FSum(_)
FSum(s) == IF s = <<>> THEN Zero ELSE FAdd(s[1], FSum(Tail(s)))

\* np.mean of a non-empty list
FMean(s) == FDivInt(FSum(s), Len(s))

\* a value given in hundredths
Pct(p) == Frac(p, 100)

----------------------------------------------------------------------------
(* config.py *)

RETRIEVAL_CANDIDATE_COUNT == 50

CURATOR_PRERANK_COUNT == 30

FINAL_RECOMMENDATION_COUNT == 10

COHERE_RERANK_TOP_N == 10

LONG_TERM_MEMORY_UPDATE_THRESHOLD == 5

FEATURE_WEIGHTS ==
    [semantic_similarity |-> <<2, 5>>,   \* 0.4
     audio_features      |-> <<3, 10>>,  \* 0.3
     user_preference     |-> <<1, 5>>,   \* 0.2
     time_of_day         |-> <<1, 10>>]  \* 0.1

\* in the iteration order of the dict
TIME_PERIODS == <<"morning", "afternoon", "evening", "night">>

TIME_OF_DAY_FEATURES ==
    [morning   |-> [hour_range |-> <<5, 12>>,
                    ideal_features |-> [energy |-> <<7, 10>>, valence |-> <<4, 5>>],
                    weight |-> <<6, 5>>],    \* 0.7, 0.8, 1.2
     afternoon |-> [hour_range |-> <<12, 17>>,
                    ideal_features |-> [energy |-> <<3, 5>>, valence |-> <<3, 5>>],
                    weight |-> <<1, 1>>],    \* 0.6, 0.6, 1.0
     evening   |-> [hour_range |-> <<17, 22>>,
                    ideal_features |-> [energy |-> <<2, 5>>, valence |-> <<1, 2>>],
                    weight |-> <<11, 10>>],  \* 0.4, 0.5, 1.1
     night     |-> [hour_range |-> <<22, 5>>,
                    ideal_features |-> [energy |-> <<3, 10>>, valence |-> <<2, 5>>],
                    weight |-> <<13, 10>>]]  \* 0.3, 0.4, 1.3

AUDIO_FEATURES ==
    <<"danceability", "energy", "valence", "tempo", "acousticness",
      "instrumentalness", "speechiness", "loudness">>

----------------------------------------------------------------------------
(* Python dict access *)

Has(d, k) == k \in DOMAIN d

\* d.get(k, default)
Get(d, k, default) == IF k \in DOMAIN d THEN d[k] ELSE default

\* d with d[k] = v
Put(d, k, v) == [x \in DOMAIN d \cup {k} |-> IF x = k THEN v ELSE d[x]]

EmptyDict == <<>>

\* Body(value), with the value computed once
With(value, Body(_)) == CHOOSE result \in {Body(v) : v \in {value}} : TRUE

----------------------------------------------------------------------------
(* Sequences *)

RECURSIVE MapSeq(_, _)
MapSeq(Op(_), s) == IF s = <<>> THEN <<>> ELSE <<Op(s[1])>> \o MapSeq(Op, Tail(s))

Prefix(s, n) == SubSeq(s, 1, Min(n, Len(s)))

\* s[-n:] for n > 0
Suffix(s, n) == SubSeq(s, Max(1, Len(s) - n + 1), Len(s))

InsertAt(s, pos, x) == SubSeq(s, 1, pos - 1) \o <<x>> \o SubSeq(s, pos, Len(s))

Range(s) == {s[i] : i \in DOMAIN s}

\* x goes behind every element whose score is not smaller: equal scores keep
\* their order (Python's sort is stable, also with reverse=True)
RECURSIVE InsertDesc(_, _)
InsertDesc(sorted, x) ==
    IF sorted = <<>> THEN <<x>>
    ELSE IF FLess(sorted[1].score, x.score) THEN <<x>> \o sorted
    ELSE <<sorted[1]>> \o InsertDesc(Tail(sorted), x)

RECURSIVE SortFrom(_, _, _)
SortFrom(s, i, acc) ==
    IF i > Len(s) THEN acc ELSE SortFrom(s, i + 1, InsertDesc(acc, s[i]))

SortedByScoreDesc_ReversedTies(s) ==
    SortFrom([i \in DOMAIN s |-> s[Len(s) + 1 - i]], 1, <<>>)

\* sorted(s, key=lambda x: x['score'], reverse=True)
SortedByScoreDesc(s) == SortFrom(s, 1, <<>>)

----------------------------------------------------------------------------
(* src/tools/time_of_day_matcher.py *)

Hours == 0 .. 23

InRange_InclusiveEnd(hour, range) ==
    IF range[1] > range[2]
    THEN hour >= range[1] \/ hour <= range[2]
    ELSE range[1] <= hour /\ hour <= range[2]

InRange(hour, range) ==
    IF range[1] > range[2]
    THEN hour >= range[1] \/ hour < range[2]
    ELSE range[1] <= hour /\ hour < range[2]

RECURSIVE FirstPeriod(_, _)
FirstPeriod(hour, i) ==
    IF i > Len(TIME_PERIODS) THEN "afternoon"
    ELSE IF InRange(hour, TIME_OF_DAY_FEATURES[TIME_PERIODS[i]].hour_range)
         THEN TIME_PERIODS[i]
         ELSE FirstPeriod(hour, i + 1)

get_time_period(hour) == FirstPeriod(hour, 1)

get_ideal_features(hour) == TIME_OF_DAY_FEATURES[get_time_period(hour)].ideal_features

get_time_weight_ByHour(hour) == Frac(100 + hour, 100)

get_time_weight(hour) == TIME_OF_DAY_FEATURES[get_time_period(hour)].weight

calculate_time_match_score(song_features, hour) ==
    With(get_ideal_features(hour), LAMBDA ideal_features :
        LET energy_diff == FAbs(FSub(Get(song_features, "energy", Half), ideal_features.energy))
            valence_diff == FAbs(FSub(Get(song_features, "valence", Half), ideal_features.valence))
            avg_diff == FDivInt(FAdd(energy_diff, valence_diff), 2)
            similarity == FSub(One, avg_diff)
        IN  FMax(Zero, FMin(One, similarity)))

\* adjusted_score = (base_score * (2 - time_weight) + time_match_score * time_weight) / 2
adjusted_score(base_score, time_match_score, time_weight) ==
    FDivInt(FAdd(FMul(base_score, FSub(<<2, 1>>, time_weight)),
                 FMul(time_match_score, time_weight)), 2)

adjust_score_for_time(base_score, song_features, hour) ==
    adjusted_score(base_score, calculate_time_match_score(song_features, hour),
                   get_time_weight(hour))

BoostOne_Added(song, hour) ==
    With(adjust_score_for_time(Get(song, "score", Half), song.features, hour),
         LAMBDA new_score :
            [original_score |-> Get(song, "score", Half), time_adjusted_score |-> new_score,
             score |-> FAdd(Get(song, "score", Half), new_score),
             time_period |-> get_time_period(hour)] @@ song)

BoostOne(song, hour) ==
    With(adjust_score_for_time(Get(song, "score", Half), song.features, hour),
         LAMBDA new_score :
            [original_score |-> Get(song, "score", Half), time_adjusted_score |-> new_score,
             score |-> new_score, time_period |-> get_time_period(hour)] @@ song)

boost_songs_by_time(songs, hour) ==
    LET Adjust(song) == BoostOne(song, hour)
    IN  SortedByScoreDesc(MapSeq(Adjust, songs))

----------------------------------------------------------------------------
(* The song catalog ("songs" collection) and the records of the stores *)

Catalog ==
    [s1 |-> [genre |-> "pop",  artist |-> "A", features |-> [energy |-> <<4, 5>>, valence |-> <<3, 5>>]],
     s2 |-> [genre |-> "rock", artist |-> "B", features |-> [energy |-> <<1, 5>>, valence |-> <<2, 5>>]],
     s3 |-> [genre |-> "",     artist |-> "A", features |-> [energy |-> <<1, 2>>]]]

\* src/database/qdrant_storage.py: QdrantStorage.get_song; None for an unknown id
get_song(song_id) == IF song_id \in DOMAIN Catalog THEN Catalog[song_id] ELSE None

\* the payload QdrantStorage.add_interaction stores; the rating key only when a
\* rating is given; the timestamp is str(uuid.uuid1().time), not an ISO date
\* (`optional` holds the optional arguments that were passed: [rating |-> r] or nothing)
QdrantPayload(user_id, song_id, interaction_type, optional) ==
    LET payload == [user_id |-> user_id, song_id |-> song_id,
                    interaction_type |-> interaction_type,
                    timestamp |-> [format |-> "uuid1"]]
    IN  IF Has(optional, "rating") THEN [rating |-> optional.rating] @@ payload ELSE payload

\* the row SQLiteManager.add_interaction inserts; a NULL rating is a missing key
SqliteRow(user_id, song_id, action_type, optional) ==
    LET row == [user_id |-> user_id, song_id |-> song_id, action_type |-> action_type]
    IN  IF Has(optional, "rating") THEN [rating |-> optional.rating] @@ row ELSE row

sqlite_add_interaction_Upsert(rows, user_id, song_id, action_type, optional) ==
    IF SqliteRow(user_id, song_id, action_type, optional) \in Range(rows)
    THEN rows
    ELSE Append(rows, SqliteRow(user_id, song_id, action_type, optional))

\* SQLiteManager.add_interaction on the rows of one user: an INSERT
sqlite_add_interaction(rows, user_id, song_id, action_type, optional) ==
    Append(rows, SqliteRow(user_id, song_id, action_type, optional))

\* QdrantStorage.add_interaction on the points of one user: an upsert under a
\* fresh uuid4 id, which puts the point at some place pos of the scroll order
qdrant_add_interaction(points, pos, user_id, song_id, interaction_type, optional) ==
    InsertAt(points, pos, QdrantPayload(user_id, song_id, interaction_type, optional))

\* a history record with the keys update_from_interactions reads (the shape of
\* SQLiteManager.get_user_interactions: the interaction joined with its song)
JoinedRow(song_id, action_type, optional, hour) ==
    LET row == [song_id |-> song_id, artist |-> Catalog[song_id].artist,
                action_type |-> action_type,
                timestamp |-> [format |-> "iso", hour |-> hour],
                features |-> Catalog[song_id].features]
    IN  IF Has(optional, "rating") THEN [rating |-> optional.rating] @@ row ELSE row

\* QdrantStorage.get_user_interactions default limit
DEFAULT_SCAN_LIMIT == 100

get_user_interactions_AllUsers(store, user_id) ==
    Prefix(store["u1"] \o store["u2"], DEFAULT_SCAN_LIMIT)

\* QdrantStorage.get_user_interactions(user_id): the first `limit` payloads of the scroll
get_user_interactions(store, user_id) == Prefix(store[user_id], DEFAULT_SCAN_LIMIT)

\* QdrantStorage.get_user_memory: a stub that returns None
get_user_memory(user_id) == None

----------------------------------------------------------------------------
(* src/memory/long_term.py *)

DefaultProfile ==
    [genre_preferences |-> EmptyDict, audio_feature_preferences |-> EmptyDict,
     liked_artists |-> <<>>, disliked_artists |-> <<>>,
     time_of_day_patterns |-> EmptyDict, total_interactions |-> 0,
     last_updated |-> None]

\* LongTermMemory.load_from_database
load_from_database(profile, user_id) ==
    LET memory == get_user_memory(user_id)
    IN  IF memory # None /\ Has(memory, "long_term") /\ memory.long_term # EmptyDict
        THEN memory.long_term ELSE profile

\* LongTermMemory.__init__
NewLongTermMemory(user_id) ==
    [user |-> user_id, profile |-> load_from_database(DefaultProfile, user_id)]

\* Python truthiness of i.get('rating')
RatingGiven(i) == Has(i, "rating") /\ i.rating # 0

Bool(b) == IF b THEN "True" ELSE "False"

\* the condition of the liked_songs comprehension: "True", "False", or
\* "KeyError" when i['action_type'] raises
LikedCond(i) ==
    IF RatingGiven(i) /\ i.rating >= 4 THEN "True"
    ELSE IF ~Has(i, "action_type") THEN "KeyError"
    ELSE Bool(i.action_type \in {"like", "play", "save"})

\* the condition of the disliked_songs comprehension
DislikedCond(i) ==
    IF RatingGiven(i) /\ i.rating <= 2 THEN "True"
    ELSE IF ~Has(i, "action_type") THEN "KeyError"
    ELSE Bool(i.action_type = "dislike")

Raises(Cond(_), s) == \E k \in DOMAIN s : Cond(s[k]) = "KeyError"

RECURSIVE Filter(_, _)
Filter(Cond(_), s) ==
    IF s = <<>> THEN <<>>
    ELSE IF Cond(s[1]) = "True" THEN <<s[1]>> \o Filter(Cond, Tail(s))
    ELSE Filter(Cond, Tail(s))

\* genre of the song of an interaction, "" when the song or its genre is missing
GenreOf(song) ==
    With(get_song(song.song_id), LAMBDA song_data :
        IF song_data # None /\ Has(song_data, "genre") THEN song_data.genre ELSE "")

RECURSIVE AddScores(_, _, _)
AddScores(genre_scores, songs, delta) ==
    IF songs = <<>> THEN genre_scores
    ELSE With(GenreOf(songs[1]), LAMBDA genre :
            AddScores(IF genre = "" THEN genre_scores
                      ELSE (genre :> (Get(genre_scores, genre, 0) + delta)) @@ genre_scores,
                      Tail(songs), delta))

RECURSIVE SumOver(_, _)
SumOver(f, S) ==
    IF S = {} THEN 0 ELSE LET x == CHOOSE x \in S : TRUE IN f[x] + SumOver(f, S \ {x})

\* genre_scores in halves: +1.0 is 2, -0.5 is -1
GenreScores(liked_songs, disliked_songs) ==
    AddScores(AddScores(EmptyDict, liked_songs, 2), disliked_songs, -1)

\* total = sum(max(0, score) for score in genre_scores.values())
ClampedTotal(genre_scores) ==
    SumOver([g \in DOMAIN genre_scores |-> Max(0, genre_scores[g])], DOMAIN genre_scores)

GenreWeights_Unclamped(genre_scores) ==
    [g \in DOMAIN genre_scores |-> Frac(genre_scores[g], ClampedTotal(genre_scores))]

\* the normalisation of _update_genre_preferences: max(0, score) / total
GenreWeights(genre_scores) ==
    [g \in DOMAIN genre_scores |-> Frac(Max(0, genre_scores[g]), ClampedTotal(genre_scores))]

\* LongTermMemory._update_genre_preferences
update_genre_preferences(profile, liked_songs, disliked_songs) ==
    With(GenreScores(liked_songs, disliked_songs), LAMBDA genre_scores :
        IF genre_scores # EmptyDict /\ ClampedTotal(genre_scores) > 0
        THEN [profile EXCEPT !.genre_preferences = GenreWeights(genre_scores)]
        ELSE profile)

RECURSIVE FeatureValues(_, _)
FeatureValues(songs, feature_name) ==
    IF songs = <<>> THEN <<>>
    ELSE LET features == Get(songs[1], "features", EmptyDict)
         IN  (IF Has(features, feature_name) THEN <<features[feature_name]>> ELSE <<>>)
             \o FeatureValues(Tail(songs), feature_name)

RECURSIVE FMinSeq(_)
FMinSeq(s) == IF Len(s) = 1 THEN s[1] ELSE FMin(s[1], FMinSeq(Tail(s)))

RECURSIVE FMaxSeq(_)
FMaxSeq(s) == IF Len(s) = 1 THEN s[1] ELSE FMax(s[1], FMaxSeq(Tail(s)))

Square(x) == FMul(x, x)

\* np.std(values) ** 2 (population variance); the standard deviation is kept
\* as its square so that it stays rational
FVariance(values) == FSub(FMean(MapSeq(Square, values)), Square(FMean(values)))

FeatureStats(values) ==
    [mean |-> FMean(values), std_sq |-> FVariance(values),
     min |-> FMinSeq(values), max |-> FMaxSeq(values)]

\* LongTermMemory._update_audio_feature_preferences
update_audio_feature_preferences(profile, liked_songs) ==
    IF liked_songs = <<>> THEN profile
    ELSE LET seen == {f \in Range(AUDIO_FEATURES) : FeatureValues(liked_songs, f) # <<>>}
         IN  [profile EXCEPT !.audio_feature_preferences =
                 [f \in seen |-> FeatureStats(FeatureValues(liked_songs, f))]]

\* the distinct artists of a list in order of first occurrence, with their counts
RECURSIVE CountArtists(_, _)
CountArtists(songs, acc) ==
    IF songs = <<>> THEN acc
    ELSE LET a == songs[1].artist
             at == {k \in DOMAIN acc : acc[k].artist = a}
         IN  CountArtists(Tail(songs),
                 IF at = {} THEN Append(acc, [artist |-> a, count |-> 1, score |-> <<1, 1>>])
                 ELSE LET k == CHOOSE k \in at : TRUE
                      IN  [acc EXCEPT ![k] = [artist |-> a, count |-> @.count + 1,
                                              score |-> <<@.count + 1, 1>>]])

\* [artist for artist, count in Counter(artists).most_common(n) if count >= 2]
TopArtists(songs, n) ==
    LET ranked == Prefix(SortedByScoreDesc(CountArtists(songs, <<>>)), n)
        AtLeastTwo(r) == Bool(r.count >= 2)
        Name(r) == r.artist
    IN  MapSeq(Name, Filter(AtLeastTwo, ranked))

LIKED_ARTISTS_CAP == 50

DISLIKED_ARTISTS_CAP == 20

update_artist_preferences_Accumulate(profile, liked_songs, disliked_songs) ==
    [profile EXCEPT !.liked_artists = @ \o TopArtists(liked_songs, LIKED_ARTISTS_CAP),
                    !.disliked_artists = TopArtists(disliked_songs, DISLIKED_ARTISTS_CAP)]

\* LongTermMemory._update_artist_preferences
update_artist_preferences(profile, liked_songs, disliked_songs) ==
    [profile EXCEPT !.liked_artists = TopArtists(liked_songs, LIKED_ARTISTS_CAP),
                    !.disliked_artists = TopArtists(disliked_songs, DISLIKED_ARTISTS_CAP)]

\* the timestamp is there and datetime.fromisoformat parses it (otherwise the
\* bare except of _update_time_patterns skips the song)
HasHour(song) == Has(song, "timestamp") /\ song.timestamp.format = "iso"

\* the feature dicts of the liked songs of one period
RECURSIVE PeriodFeatures(_, _)
PeriodFeatures(songs, period) ==
    IF songs = <<>> THEN <<>>
    ELSE LET features == Get(songs[1], "features", EmptyDict)
         IN  (IF HasHour(songs[1]) /\ get_time_period(songs[1].timestamp.hour) = period
                 /\ features # EmptyDict
              THEN <<features>> ELSE <<>>) \o PeriodFeatures(Tail(songs), period)

PatternOf(feature_list) ==
    LET Avg(feature_name) ==
            LET Value(f) == Get(f, feature_name, Half) IN FMean(MapSeq(Value, feature_list))
    IN  [avg_features |-> [energy |-> Avg("energy"), valence |-> Avg("valence"),
                           danceability |-> Avg("danceability")],
         count |-> Len(feature_list)]

\* LongTermMemory._update_time_patterns
update_time_patterns(profile, liked_songs) ==
    LET seen == {p \in Range(TIME_PERIODS) : PeriodFeatures(liked_songs, p) # <<>>}
    IN  [profile EXCEPT !.time_of_day_patterns =
            [p \in seen |-> PatternOf(PeriodFeatures(liked_songs, p))]]

\* LongTermMemory.save_to_database: stamps the profile; update_user_memory of
\* QdrantStorage is a stub, so nothing is persisted
save_to_database(profile, clock) == [profile EXCEPT !.last_updated = [isoformat |-> clock]]

BelowThreshold_OffByOne(profile, all_interactions, force) ==
    ~force /\ profile.total_interactions > 0
        /\ Len(all_interactions) - profile.total_interactions
               <= LONG_TERM_MEMORY_UPDATE_THRESHOLD

\* the early return of update_from_interactions: not forced, updated before,
\* and fewer new interactions than the threshold
BelowThreshold(profile, all_interactions, force) ==
    ~force /\ profile.total_interactions > 0
        /\ Len(all_interactions) - profile.total_interactions
               < LONG_TERM_MEMORY_UPDATE_THRESHOLD

\* LongTermMemory.update_from_interactions on the object state `profile`, given
\* what db.get_user_interactions returned; result: the object's profile
\* afterwards and how the call ended
update_from_interactions(profile, all_interactions, force, clock) ==
    IF all_interactions = <<>>
    THEN [profile |-> profile, outcome |-> "no_interactions"]
    ELSE IF BelowThreshold(profile, all_interactions, force)
    THEN [profile |-> profile, outcome |-> "below_threshold"]
    ELSE IF Raises(LikedCond, all_interactions) \/ Raises(DislikedCond, all_interactions)
    THEN [profile |-> profile, outcome |-> "KeyError"]
    ELSE With(Filter(LikedCond, all_interactions), LAMBDA liked_songs :
         With(Filter(DislikedCond, all_interactions), LAMBDA disliked_songs :
         With(update_audio_feature_preferences(
                  update_genre_preferences(profile, liked_songs, disliked_songs),
                  liked_songs), LAMBDA p2 :
            IF \/ \E k \in DOMAIN liked_songs : ~Has(liked_songs[k], "artist")
               \/ \E k \in DOMAIN disliked_songs : ~Has(disliked_songs[k], "artist")
            THEN [profile |-> p2, outcome |-> "KeyError"]
            ELSE LET p3 == update_artist_preferences(p2, liked_songs, disliked_songs)
                     p4 == update_time_patterns(p3, liked_songs)
                     p5 == [p4 EXCEPT !.total_interactions = Len(all_interactions)]
                 IN  [profile |-> save_to_database(p5, clock), outcome |-> "updated"])))

get_genre_preference_ZeroDefault(profile, genre) == Get(profile.genre_preferences, genre, Zero)

\* LongTermMemory.get_genre_preference
get_genre_preference(profile, genre) == Get(profile.genre_preferences, genre, Half)

\* LongTermMemory.is_artist_liked
is_artist_liked(profile, artist) == artist \in Range(profile.liked_artists)

\* LongTermMemory.is_artist_disliked
is_artist_disliked(profile, artist) == artist \in Range(profile.disliked_artists)

\* the greatest r in lo .. hi with r * r <= n, by bisection
RECURSIVE ISqrtIn(_, _, _)
ISqrtIn(n, lo, hi) ==
    IF lo >= hi THEN lo
    ELSE IF ((lo + hi + 1) \div 2) * ((lo + hi + 1) \div 2) <= n
         THEN ISqrtIn(n, (lo + hi + 1) \div 2, hi)
         ELSE ISqrtIn(n, lo, (lo + hi + 1) \div 2 - 1)

\* the integer square root of n
ISqrt(n) == ISqrtIn(n, 0, Min(n, 46340))

\* the square root of a rational, exact when it is rational and otherwise
\* rounded down to hundredths of the denominator
FSqrt(x) == Frac(ISqrt(x[1] * x[2] * 10000), x[2] * 100)

\* the score of one feature in calculate_song_match_score
FeatureScore(value, prefs) ==
    IF FLess(Zero, prefs.std_sq)
    THEN LET distance == FMul(FAbs(FSub(value, prefs.mean)),
                              <<FSqrt(prefs.std_sq)[2], 2 * FSqrt(prefs.std_sq)[1]>>)
         IN  FMax(Zero, FSub(One, distance))
    ELSE IF value = prefs.mean THEN One ELSE Half

RECURSIVE SeqOfSet(_)
SeqOfSet(S) == IF S = {} THEN <<>> ELSE LET x == CHOOSE x \in S : TRUE IN <<x>> \o SeqOfSet(S \ {x})

calculate_song_match_score_ArtistAlways(profile, song_features, song_genre, song_artist) ==
    LET prefs == profile.audio_feature_preferences
        compared == SeqOfSet(DOMAIN song_features \cap DOMAIN prefs)
        Score(f) == FeatureScore(song_features[f], prefs[f])
        genre_part == IF song_genre # "" /\ profile.genre_preferences # EmptyDict
                      THEN <<get_genre_preference(profile, song_genre)>> ELSE <<>>
        feature_part == IF prefs # EmptyDict /\ DOMAIN song_features \cap DOMAIN prefs # {}
                        THEN <<FMean(MapSeq(Score, compared))>> ELSE <<>>
        artist_part == IF song_artist = "" THEN <<>>
                       ELSE IF is_artist_liked(profile, song_artist) THEN <<One>>
                       ELSE IF is_artist_disliked(profile, song_artist) THEN <<Zero>>
                       ELSE <<Half>>
    IN  With(genre_part \o feature_part \o artist_part, LAMBDA scores :
            IF scores # <<>> THEN FMean(scores) ELSE Half)

\* LongTermMemory.calculate_song_match_score; a genre or artist of "" is falsy
calculate_song_match_score(profile, song_features, song_genre, song_artist) ==
    LET prefs == profile.audio_feature_preferences
        compared == SeqOfSet(DOMAIN song_features \cap DOMAIN prefs)
        Score(f) == FeatureScore(song_features[f], prefs[f])
        genre_part == IF song_genre # "" /\ profile.genre_preferences # EmptyDict
                      THEN <<get_genre_preference(profile, song_genre)>> ELSE <<>>
        feature_part == IF prefs # EmptyDict /\ DOMAIN song_features \cap DOMAIN prefs # {}
                        THEN <<FMean(MapSeq(Score, compared))>> ELSE <<>>
        artist_part == IF song_artist = "" THEN <<>>
                       ELSE IF is_artist_liked(profile, song_artist) THEN <<One>>
                       ELSE IF is_artist_disliked(profile, song_artist) THEN <<Zero>>
                       ELSE <<>>
    IN  With(genre_part \o feature_part \o artist_part, LAMBDA scores :
            IF scores # <<>> THEN FMean(scores) ELSE Half)

\* get_long_term_memory(user_id, auto_update): the object after the optional
\* update, and how the update ended ("not_run" without auto_update)
get_long_term_memory(store, user_id, auto_update, clock) ==
    IF auto_update
    THEN With(update_from_interactions(NewLongTermMemory(user_id).profile,
                  get_user_interactions(store, user_id), FALSE, clock),
              LAMBDA updated :
                 [user |-> user_id, profile |-> updated.profile, outcome |-> updated.outcome])
    ELSE [user |-> user_id, profile |-> NewLongTermMemory(user_id).profile,
          outcome |-> "not_run"]

----------------------------------------------------------------------------
(* src/memory/short_term.py *)

SHORT_TERM_MEMORY_WINDOW == 20

\* the cap of current_queries
QUERY_CAP == 10

\* the cap of conversation_context
CONVERSATION_CAP == 20

\* datetime.now().isoformat(), its value left open
IsoTimestamp == [format |-> "iso"]

\* ShortTermMemory.__init__
NewShortTermMemory(user_id, session_id) ==
    [user_id |-> user_id, session_id |-> session_id, current_queries |-> <<>>,
     recent_interactions |-> <<>>, conversation_context |-> <<>>,
     temporary_preferences |-> EmptyDict]

\* s, cut to s[-cap:] when it is longer than cap
Capped(s, cap) == IF Len(s) > cap THEN Suffix(s, cap) ELSE s

add_query_KeepOldest(memory, query) ==
    [memory EXCEPT !.current_queries =
        Prefix(Append(@, [query |-> query, timestamp |-> IsoTimestamp]), QUERY_CAP)]

\* ShortTermMemory.add_query
add_query(memory, query) ==
    [memory EXCEPT !.current_queries =
        Capped(Append(@, [query |-> query, timestamp |-> IsoTimestamp]), QUERY_CAP)]

\* ShortTermMemory.add_interaction, on the object; the rating is <<r>>, or
\* None when none was given; its call of QdrantStorage.add_interaction is
\* qdrant_add_interaction
add_interaction(memory, song_id, action_type, optional) ==
    [memory EXCEPT !.recent_interactions =
        Capped(Append(@, [song_id |-> song_id, action_type |-> action_type,
                          rating |-> IF Has(optional, "rating")
                                     THEN <<optional.rating>> ELSE None,
                          timestamp |-> IsoTimestamp]),
               SHORT_TERM_MEMORY_WINDOW)]

\* ShortTermMemory.add_conversation_turn
add_conversation_turn(memory, role, content) ==
    [memory EXCEPT !.conversation_context =
        Capped(Append(@, [role |-> role, content |-> content,
                          timestamp |-> IsoTimestamp]),
               CONVERSATION_CAP)]

\* ShortTermMemory.update_temporary_preference
update_temporary_preference(memory, key, value) ==
    [memory EXCEPT !.temporary_preferences = Put(@, key, value)]

\* ShortTermMemory.load_from_database
short_term_load_from_database(memory) ==
    LET stored == get_user_memory(memory.user_id)
    IN  IF stored # None /\ Has(stored, "short_term") /\ stored.short_term # EmptyDict
        THEN [memory EXCEPT
                 !.current_queries = Get(stored.short_term, "current_queries", <<>>),
                 !.recent_interactions = Get(stored.short_term, "recent_interactions", <<>>),
                 !.conversation_context = Get(stored.short_term, "conversation_context", <<>>),
                 !.temporary_preferences =
                     Get(stored.short_term, "temporary_preferences", EmptyDict)]
        ELSE memory

\* get_short_term_memory
get_short_term_memory(user_id, session_id) ==
    short_term_load_from_database(NewShortTermMemory(user_id, session_id))

update_user_memory_Stored(store, user_id, long_term, short_term_data) ==
    [store EXCEPT ![user_id] = [long_term |-> long_term, short_term |-> short_term_data]]

\* QdrantStorage.update_user_memory: a stub that stores nothing
update_user_memory(store, user_id, long_term, short_term_data) == store

\* ShortTermMemory.save_to_database
short_term_save_to_database(store, memory) ==
    update_user_memory(store, memory.user_id, None,
        [session_id |-> memory.session_id,
         current_queries |-> memory.current_queries,
         recent_interactions |-> memory.recent_interactions,
         conversation_context |-> memory.conversation_context,
         temporary_preferences |-> memory.temporary_preferences,
         timestamp |-> IsoTimestamp])

----------------------------------------------------------------------------
(* src/reranker/cohere_reranker.py *)

\* the song of one result of the reranker, as CohereReranker.rerank maps it back
RerankedSong(songs, results, k) ==
    [rerank_score |-> results[k].relevance_score, rerank_position |-> k]
        @@ songs[results[k].index + 1]

\* CohereReranker.rerank(songs, ..., top_n); `reranker` is what the external
\* call does: it raises, or returns `results` for the top_n it was asked for
rerank_NoTruncateOnError(songs, top_n, reranker) ==
    IF songs = <<>> THEN <<>>
    ELSE IF reranker.raises THEN songs
         ELSE [k \in 1 .. Len(reranker.results) |->
                  RerankedSong(songs, reranker.results, k)]

rerank(songs, top_n, reranker) ==
    IF songs = <<>> THEN <<>>
    ELSE LET n == Min(top_n, Len(songs))
         IN  IF reranker.raises THEN SubSeq(songs, 1, n)
             ELSE [k \in 1 .. Len(reranker.results) |->
                      RerankedSong(songs, reranker.results, k)]

----------------------------------------------------------------------------
(* src/agents/curator.py *)

ScoredCandidate(candidate, profile) ==
    With(calculate_song_match_score(profile, candidate.features,
             Get(candidate, "genre", ""), Get(candidate, "artist", "")),
         LAMBDA profile_score :
    With(get_genre_preference(profile, Get(candidate, "genre", "")),
         LAMBDA genre_score :
            LET semantic_score == Get(candidate, "score", Half)
                combined_score ==
                    FAdd(FAdd(FMul(semantic_score, FEATURE_WEIGHTS.semantic_similarity),
                              FMul(profile_score, FEATURE_WEIGHTS.user_preference)),
                         FMul(genre_score, FEATURE_WEIGHTS.audio_features))
            IN  [semantic_score |-> Get(candidate, "score", Half),
                 profile_score |-> profile_score,
                 genre_score |-> genre_score, score |-> combined_score] @@ candidate))

\* CuratorAgent._apply_collaborative_filtering, against the profile that
\* get_long_term_memory(user_id, auto_update=False) holds
apply_collaborative_filtering(candidates, profile) ==
    LET Score(candidate) == ScoredCandidate(candidate, profile)
    IN  MapSeq(Score, candidates)

\* CuratorAgent._apply_time_matching
apply_time_matching(candidates, hour) == boost_songs_by_time(candidates, hour)

\* step 3 of curate_recommendations
TopCandidates_NoTruncate(scored_candidates) ==
    SortedByScoreDesc(scored_candidates)

TopCandidates(scored_candidates) ==
    Prefix(SortedByScoreDesc(scored_candidates), CURATOR_PRERANK_COUNT)

\* step 4 of curate_recommendations
FinalRecommendations_WholePrerank(top_candidates, enable_reranking, reranker) ==
    IF enable_reranking /\ Len(top_candidates) > 0
    THEN rerank(top_candidates, FINAL_RECOMMENDATION_COUNT, reranker)
    ELSE top_candidates

FinalRecommendations(top_candidates, enable_reranking, reranker) ==
    IF enable_reranking /\ Len(top_candidates) > 0
    THEN rerank(top_candidates, FINAL_RECOMMENDATION_COUNT, reranker)
    ELSE Prefix(top_candidates, FINAL_RECOMMENDATION_COUNT)

Reasons(song, time_matching, reranking) ==
    (IF FLess(Pct(70), Get(song, "semantic_score", Zero))
     THEN <<"High semantic match to query">> ELSE <<>>)
    \o (IF FLess(Pct(70), Get(song, "profile_score", Zero))
        THEN <<"Matches your taste profile">> ELSE <<>>)
    \o (IF FLess(Pct(60), Get(song, "genre_score", Zero))
        THEN <<"You enjoy this genre">> ELSE <<>>)
    \o (IF time_matching /\ Get(song, "time_adjusted_score", Zero) # Zero
           /\ FLess(Get(song, "original_score", Zero), Get(song, "time_adjusted_score", Zero))
        THEN <<"Good for this period">> ELSE <<>>)
    \o (IF reranking /\ Get(song, "rerank_score", Zero) # Zero
        THEN <<"Relevance score">> ELSE <<>>)

generate_reasoning_NoFallback(recommendations, time_matching, reranking) ==
    [steps |-> <<"Semantic Retrieval", "Collaborative Filtering">>,
     song_explanations |->
        [i \in 1 .. Len(recommendations) |->
            [position |-> i, song |-> recommendations[i].name,
             reasons |-> Reasons(recommendations[i], time_matching, reranking)]]]

\* CuratorAgent._generate_reasoning
generate_reasoning(recommendations, time_matching, reranking) ==
    [steps |-> <<"Semantic Retrieval", "Collaborative Filtering">>
               \o (IF time_matching THEN <<"Time-of-Day Matching">> ELSE <<>>)
               \o (IF reranking THEN <<"Cohere Reranking">> ELSE <<>>),
     song_explanations |->
        [i \in 1 .. Len(recommendations) |->
            With(Reasons(recommendations[i], time_matching, reranking), LAMBDA reasons :
                [position |-> i, song |-> recommendations[i].name,
                 reasons |-> IF reasons # <<>> THEN reasons ELSE <<"Matches your query">>])]]

\* CuratorAgent.curate_recommendations; top_candidates is kept beside the
\* returned dict because the claims refer to it
curate_recommendations(candidates, profile, enable_time_matching, enable_reranking, hour, reranker) ==
    With(TopCandidates(
             With(apply_collaborative_filtering(candidates, profile), LAMBDA filtered :
                 IF enable_time_matching
                 THEN apply_time_matching(filtered, hour) ELSE filtered)),
         LAMBDA top_candidates :
    With(FinalRecommendations(top_candidates, enable_reranking, reranker),
         LAMBDA final_recommendations :
            [top_candidates |-> top_candidates,
             result |->
                [recommendations |-> final_recommendations,
                 reasoning |-> generate_reasoning(final_recommendations,
                                   enable_time_matching, enable_reranking),
                 metadata |->
                    [total_candidates |-> Len(candidates),
                     prerank_count |-> Len(top_candidates),
                     final_count |-> Len(final_recommendations),
                     time_matching_enabled |-> enable_time_matching,
                     reranking_enabled |-> enable_reranking,
                     time_period |-> IF enable_time_matching
                                     THEN <<get_time_period(hour)>> ELSE None]]]))

----------------------------------------------------------------------------
(* Inputs of the curation pipeline *)

\* a candidate as QdrantManager.search formats it (sem, e, v in hundredths)
Cand(id, sem, genre, artist, e, v) ==
    [id |-> id, name |-> id, artist |-> artist, genre |-> genre, score |-> Pct(sem),
     features |-> [energy |-> Pct(e), valence |-> Pct(v)]]

CandShapes ==
    {[sem |-> 90, genre |-> "pop",  artist |-> "A", e |-> 80, v |-> 60],
     [sem |-> 50, genre |-> "rock", artist |-> "B", e |-> 20, v |-> 40],
     [sem |-> 50, genre |-> "pop",  artist |-> "A", e |-> 30, v |-> 40]}

ShortLists ==
    UNION {{[i \in 1 .. n |-> Cand(i, sh[i].sem, sh[i].genre, sh[i].artist, sh[i].e, sh[i].v)] :
                sh \in [1 .. n -> CandShapes]} : n \in 0 .. MaxShort}

Patterns == {"ascending", "descending", "flat", "mixed"}

PatternSem(pattern, i) ==
    CASE pattern = "ascending"  -> 3 * i
      [] pattern = "descending" -> 100 - 3 * i
      [] pattern = "flat"       -> 50
      [] pattern = "mixed"      -> (37 * i) % 101

LongLengths ==
    {n \in (FINAL_RECOMMENDATION_COUNT - 1) .. MaxCandidates :
        \/ n <= FINAL_RECOMMENDATION_COUNT + 1
        \/ n >= CURATOR_PRERANK_COUNT - 1}

LongLists ==
    {[i \in 1 .. n |-> Cand(i, PatternSem(pattern, i),
                            IF i % 2 = 0 THEN "pop" ELSE "rock",
                            IF i % 3 = 0 THEN "A" ELSE "B",
                            (29 * i) % 101, (53 * i) % 101)] :
        n \in LongLengths, pattern \in Patterns}

CandidateLists == ShortLists \cup LongLists

CurateHours == {4, 5, 12, 17, 22}

\* the results of the external reranker for n documents and the requested
\* top_n: at most top_n results, each naming a different document
RerankResults(n, top_n) ==
    LET Lengths == {k \in 0 .. Min(n, top_n) : k <= MaxShort \/ k >= top_n - 1}
    IN  {[k \in 1 .. len |-> [index |-> k - 1, relevance_score |-> Pct(100 - 5 * k)]] :
            len \in Lengths}
        \cup {[k \in 1 .. len |-> [index |-> n - k, relevance_score |-> Pct(100 - 5 * k)]] :
            len \in Lengths}

NotCalled == [called |-> FALSE, raises |-> FALSE, results |-> <<>>]

\* what the external reranker does when it is called with n documents
RerankerOutcomes(n, top_n) ==
    {[called |-> TRUE, raises |-> TRUE, results |-> <<>>]}
    \cup {[called |-> TRUE, raises |-> FALSE, results |-> r] : r \in RerankResults(n, top_n)}

\* the reranker is called iff reranking is enabled and there is a candidate
RerankerFor(n_candidates, enable_reranking) ==
    LET n == Min(n_candidates, CURATOR_PRERANK_COUNT)
    IN  IF enable_reranking /\ n > 0
        THEN RerankerOutcomes(n, Min(FINAL_RECOMMENDATION_COUNT, n))
        ELSE {NotCalled}

----------------------------------------------------------------------------
(* State *)

NoOptional == EmptyDict

\* the sessions of the users
Sessions == {"session1", "session2"}

SessionKeys == Users \X Sessions

\* no ShortTermMemory object is in use
NoSessions == [key \in SessionKeys |-> None]

\* nothing was stored as a user's memory
NoUserMemory == [u \in Users |-> None]

\* The "interactions" collection outlives the process.  Its payloads carry the
\* key interaction_type when QdrantStorage.add_interaction wrote them; readers
\* of the collection also expect payloads with the key action_type
\* (streamlit_app.py: "Handle both 'action_type' and 'interaction_type' field
\* names"), the key update_from_interactions reads.  The collection starts
\* empty, or with one such record for user u2.
InitialStores ==
    {[u \in Users |-> <<>>],
     [u \in Users |-> IF u = "u2" THEN <<JoinedRow("s1", "like", NoOptional, 8)>> ELSE <<>>]}

Init ==
    /\ interactions \in InitialStores
    /\ sqlite_interactions = [u \in Users |-> <<>>]
    /\ sqlite_recommendations = <<>>
    /\ ltm = None
    /\ now = 0
    /\ call = [op |-> "init"]
    /\ ret = None
    /\ frame = None
    /\ short_term = NoSessions
    /\ user_memory = NoUserMemory

\* a call of the system reads the clock once; the clock has advanced by a
\* tick since the call before
Tick == now + 1

\* what a call that raised, or returned value, leaves in ret
Raised(exception) == [raised |-> exception, value |-> None]
Returned(value) == [raised |-> "none", value |-> value]

\* MusicRecommendationSystem.record_feedback.  session is the truth value of
\* session_id; pos is the place of the new point in the scroll order of the
\* collection (points are ordered by their random uuid4 id); the short-term
\* memory is saved through QdrantStorage.update_user_memory, which stores
\* nothing
RecordFeedback(user_id, song_id, action_type, optional, session, pos) ==
    /\ now < MaxEvents
    /\ now' = Tick
    /\ sqlite_interactions' =
          [sqlite_interactions EXCEPT
              ![user_id] = sqlite_add_interaction(@, user_id, song_id, action_type, optional)]
    /\ interactions' =
          IF session
          THEN [interactions EXCEPT
                   ![user_id] = qdrant_add_interaction(@, pos, user_id, song_id,
                                                       action_type, optional)]
          ELSE interactions
    /\ \E long_term \in {get_long_term_memory(interactions', user_id, TRUE, Tick)} :
          /\ ltm' = [user |-> user_id, profile |-> long_term.profile]
          /\ ret' = IF long_term.outcome = "KeyError"
                    THEN Raised("KeyError") ELSE Returned(None)
          /\ frame' = [sqlite_before |-> sqlite_interactions[user_id],
                       qdrant_before |-> interactions[user_id],
                       all_interactions |-> get_user_interactions(interactions', user_id),
                       outcome |-> long_term.outcome]
    /\ call' = [op |-> "record_feedback", user_id |-> user_id, song_id |-> song_id,
                action_type |-> action_type, optional |-> optional, session |-> session]
    /\ user_memory' =
          IF session
          THEN short_term_save_to_database(user_memory,
                   add_interaction(get_short_term_memory(user_id, "session1"),
                                   song_id, action_type, optional))
          ELSE user_memory
    /\ UNCHANGED <<sqlite_recommendations, short_term>>

\* the stages of get_recommendations recorded in pipeline_trace
RetrievalStage(candidates) ==
    [agent |-> "RetrieverAgent", candidates_count |-> Len(candidates)]

AnalysisStage(profile) ==
    [agent |-> "AnalyzerAgent", total_interactions |-> profile.total_interactions]

CurationStage(curation_result) ==
    [agent |-> "CuratorAgent", final_count |-> Len(curation_result.recommendations),
     metadata |-> curation_result.metadata, reasoning |-> curation_result.reasoning]

CritiqueStage == [agent |-> "CriticAgent"]

\* SQLiteManager.save_recommendation
RecommendationRow(session_id, user_id, recommendations) ==
    [session_id |-> session_id, user_id |-> user_id,
     recommended_songs |-> [i \in 1 .. Len(recommendations) |-> recommendations[i].id]]

\* MusicRecommendationSystem.get_recommendations.  candidates is what the
\* retriever found, reranker what the external reranker does if it is called.
\* The scores of CriticAgent are not modelled: it reads the recommendations
\* and changes no state.
GetRecommendations(user_id, session, candidates, enable_time_matching, enable_reranking, hour, reranker) ==
    /\ now < MaxEvents
    /\ now' = Tick
    /\ call' = [op |-> "get_recommendations", user_id |-> user_id,
                session |-> session, candidates |-> candidates,
                enable_time_matching |-> enable_time_matching,
                enable_reranking |-> enable_reranking, hour |-> hour,
                reranker |-> reranker]
    /\ \E session_id \in {IF session THEN "session1" ELSE "uuid4"} :
         IF candidates = <<>>
         THEN /\ ret' = Returned(
                    [recommendations |-> <<>>,
                     message |-> "No songs found matching your query",
                     pipeline_trace |-> [session_id |-> session_id, user_id |-> user_id,
                         stages |-> [retrieval |-> RetrievalStage(candidates)]]])
              /\ frame' = [stages_run |-> {"retrieval"}]
              /\ UNCHANGED <<ltm, sqlite_recommendations, user_memory>>
         ELSE \E analysis \in {get_long_term_memory(interactions, user_id, TRUE, Tick)} :
           IF analysis.outcome = "KeyError"
           THEN /\ ret' = Raised("KeyError")
                /\ frame' = [stages_run |-> {"retrieval", "analysis"}]
                /\ ltm' = [user |-> user_id, profile |-> analysis.profile]
                /\ UNCHANGED <<sqlite_recommendations, user_memory>>
           ELSE \E curator_memory \in
                      {get_long_term_memory(interactions, user_id, FALSE, Tick)} :
                \E curation \in
                      {curate_recommendations(candidates, curator_memory.profile,
                           enable_time_matching, enable_reranking, hour, reranker)} :
                /\ ret' = Returned(
                      [success |-> TRUE,
                       recommendations |-> curation.result.recommendations,
                       pipeline_trace |-> [session_id |-> session_id, user_id |-> user_id,
                           stages |-> [retrieval |-> RetrievalStage(candidates),
                                       analysis |-> AnalysisStage(analysis.profile),
                                       curation |-> CurationStage(curation.result),
                                       critique |-> CritiqueStage]],
                       session_id |-> session_id])
                /\ frame' = [stages_run |-> {"retrieval", "analysis", "curation",
                                             "critique", "save"},
                             top_candidates |-> curation.top_candidates]
                /\ ltm' = [user |-> user_id, profile |-> curator_memory.profile]
                /\ sqlite_recommendations' =
                      Append(sqlite_recommendations,
                             RecommendationRow(session_id, user_id,
                                               curation.result.recommendations))
                /\ user_memory' =
                      short_term_save_to_database(user_memory,
                          add_query(get_short_term_memory(user_id, session_id), "query"))
    /\ UNCHANGED <<interactions, sqlite_interactions, short_term>>

\* MusicRecommendationSystem.get_user_profile
GetUserProfile(user_id) ==
    /\ now < MaxEvents
    /\ now' = Tick
    /\ call' = [op |-> "get_user_profile", user_id |-> user_id]
    /\ \E long_term \in {get_long_term_memory(interactions, user_id, TRUE, Tick)} :
          /\ ret' = IF long_term.outcome = "KeyError"
                    THEN Raised("KeyError") ELSE Returned(long_term.profile)
          /\ frame' = [outcome |-> long_term.outcome]
          /\ ltm' = [user |-> user_id, profile |-> long_term.profile]
    /\ UNCHANGED <<interactions, sqlite_interactions, sqlite_recommendations,
                   short_term, user_memory>>

\* the feedback events the behaviours of Spec record
FeedbackSongs == {"s1"}

Feedbacks ==
    {[action_type |-> "like", optional |-> NoOptional],
     [action_type |-> "rate", optional |-> [rating |-> 5]]}

\* what the retriever finds: nothing, or two songs
RetrievedCandidates ==
    {<<>>, <<Cand(1, 50, "rock", "B", 20, 40), Cand(2, 90, "pop", "A", 80, 60)>>}

\* the optional arguments of the requests the behaviours of Spec make
Requests ==
    {[session |-> TRUE,  enable_time_matching |-> TRUE,  hour |-> 22, enable_reranking |-> TRUE],
     [session |-> TRUE,  enable_time_matching |-> FALSE, hour |-> 12, enable_reranking |-> TRUE],
     [session |-> FALSE, enable_time_matching |-> FALSE, hour |-> 12, enable_reranking |-> FALSE]}

\* what the external reranker does in these requests: it raises, or it returns
\* the documents in reverse order
RequestRerankers(n_candidates, enable_reranking) ==
    IF enable_reranking /\ n_candidates > 0
    THEN {[called |-> TRUE, raises |-> TRUE, results |-> <<>>],
          [called |-> TRUE, raises |-> FALSE,
           results |-> [k \in 1 .. n_candidates |->
                          [index |-> n_candidates - k, relevance_score |-> Pct(100 - 5 * k)]]]}
    ELSE {NotCalled}

Next ==
    \/ \E user_id \in Users, song_id \in FeedbackSongs, feedback \in Feedbacks,
          session \in BOOLEAN :
          \E pos \in 1 .. (IF session THEN Len(interactions[user_id]) + 1 ELSE 1) :
              RecordFeedback(user_id, song_id, feedback.action_type, feedback.optional,
                             session, pos)
    \/ \E user_id \in Users, candidates \in RetrievedCandidates, request \in Requests :
          \E reranker \in RequestRerankers(Len(candidates), request.enable_reranking) :
              GetRecommendations(user_id, request.session, candidates,
                                 request.enable_time_matching, request.enable_reranking,
                                 request.hour, reranker)
    \/ \E user_id \in Users : GetUserProfile(user_id)

Spec == Init /\ [][Next]_vars

----------------------------------------------------------------------------
(* record_feedback on every kind of event *)

\* the action types of record_feedback's docstring, and 'rate' of the UI
FeedbackKinds == {"like", "dislike", "play", "save", "skip", "view", "rate"}

OptionalRatings == {NoOptional} \cup {[rating |-> r] : r \in 1 .. 5}

InitFeedback ==
    /\ interactions = [u \in Users |-> <<>>]
    /\ sqlite_interactions = [u \in Users |-> <<>>]
    /\ sqlite_recommendations = <<>>
    /\ ltm = None
    /\ now = 0
    /\ \E user_id \in Users, song_id \in {"s1", "s2"}, action_type \in FeedbackKinds,
          optional \in OptionalRatings, session \in BOOLEAN :
          call = [op |-> "pending", user_id |-> user_id, song_id |-> song_id,
                  action_type |-> action_type, optional |-> optional,
                  session |-> session]
    /\ ret = None
    /\ frame = None
    /\ short_term = NoSessions
    /\ user_memory = NoUserMemory

\* record_feedback applied to the pending call
RecordPending ==
    /\ call.op = "pending"
    /\ RecordFeedback(call.user_id, call.song_id, call.action_type, call.optional,
                      call.session, 1)

NextFeedback == RecordPending

SpecFeedback == InitFeedback /\ [][NextFeedback]_vars

InitCurate ==
    /\ interactions = [u \in Users |-> <<>>]
    /\ sqlite_interactions = [u \in Users |-> <<>>]
    /\ sqlite_recommendations = <<>>
    /\ ltm = None
    /\ now = 0
    /\ \E candidates \in CandidateLists, user_id \in Users,
          enable_time_matching \in BOOLEAN, enable_reranking \in BOOLEAN :
        \E hour \in (IF enable_time_matching THEN CurateHours ELSE {12}),
           reranker \in RerankerFor(Len(candidates), enable_reranking) :
            call = [op |-> "pending", candidates |-> candidates, user_id |-> user_id,
                    enable_time_matching |-> enable_time_matching,
                    enable_reranking |-> enable_reranking, hour |-> hour,
                    reranker |-> reranker]
    /\ ret = None
    /\ frame = None
    /\ short_term = NoSessions
    /\ user_memory = NoUserMemory

\* CuratorAgent.curate_recommendations applied to the pending call
Curate ==
    /\ call.op = "pending"
    /\ \E curation \in
            {curate_recommendations(call.candidates,
                 get_long_term_memory(interactions, call.user_id, FALSE, now).profile,
                 call.enable_time_matching, call.enable_reranking,
                 call.hour, call.reranker)} :
          /\ call' = [call EXCEPT !.op = "curate_recommendations"]
          /\ ret' = curation.result
          /\ frame' = [top_candidates |-> curation.top_candidates]
    /\ UNCHANGED <<interactions, sqlite_interactions, sqlite_recommendations, ltm, now,
                   short_term, user_memory>>

NextCurate == Curate

SpecCurate == InitCurate /\ [][NextCurate]_vars

----------------------------------------------------------------------------
(* curate_recommendations on candidates of which some have no features *)

\* a candidate whose payload has no 'features' key
WithoutFeatures(candidate) ==
    [key \in DOMAIN candidate \ {"features"} |-> candidate[key]]

MixedLists ==
    {[i \in DOMAIN songs |-> IF i \in malformed THEN WithoutFeatures(songs[i]) ELSE songs[i]] :
        songs \in ShortLists \ {<<>>}, malformed \in SUBSET (1 .. MaxShort)}

InitMixed ==
    /\ interactions = [u \in Users |-> <<>>]
    /\ sqlite_interactions = [u \in Users |-> <<>>]
    /\ sqlite_recommendations = <<>>
    /\ ltm = None
    /\ now = 0
    /\ \E candidates \in MixedLists, user_id \in Users,
          enable_time_matching \in BOOLEAN, enable_reranking \in BOOLEAN :
        \E reranker \in RerankerFor(Len(candidates), enable_reranking) :
            call = [op |-> "pending", candidates |-> candidates, user_id |-> user_id,
                    enable_time_matching |-> enable_time_matching,
                    enable_reranking |-> enable_reranking, hour |-> 12,
                    reranker |-> reranker]
    /\ ret = None
    /\ frame = None
    /\ short_term = NoSessions
    /\ user_memory = NoUserMemory

\* CuratorAgent.curate_recommendations applied to the pending call:
\* song['features'] in _apply_collaborative_filtering raises KeyError for a
\* candidate without features, and nothing catches it
CurateMixed ==
    /\ call.op = "pending"
    /\ call' = [call EXCEPT !.op = "curate_recommendations"]
    /\ IF \E k \in DOMAIN call.candidates : ~Has(call.candidates[k], "features")
       THEN /\ ret' = Raised("KeyError")
            /\ frame' = [top_candidates |-> <<>>]
       ELSE \E curation \in
                {curate_recommendations(call.candidates,
                     get_long_term_memory(interactions, call.user_id, FALSE, now).profile,
                     call.enable_time_matching, call.enable_reranking,
                     call.hour, call.reranker)} :
              /\ ret' = Returned(curation.result)
              /\ frame' = [top_candidates |-> curation.top_candidates]
    /\ UNCHANGED <<interactions, sqlite_interactions, sqlite_recommendations, ltm, now,
                   short_term, user_memory>>

NextMixed == CurateMixed

SpecMixed == InitMixed /\ [][NextMixed]_vars

----------------------------------------------------------------------------
(* src/agents/critic.py: CriticAgent._identify_issues *)

\* the artist_repetition issues, one for every artist counted more than 3
\* times, in the order of the Counter (first occurrence)
ArtistIssues(counted) ==
    IF \E k \in DOMAIN counted : counted[k].count > 3
    THEN [k \in 1 .. Cardinality({j \in DOMAIN counted : counted[j].count > 3}) |->
             [type |-> "artist_repetition", severity |-> "medium"]]
    ELSE <<>>

\* set(list(user_analysis['genre_preferences'].keys())[:3]); the dict is
\* given as the sequence of its items in insertion order
top_user_genres(genre_preferences) ==
    {genre_preferences[k].genre : k \in 1 .. Min(3, Len(genre_preferences))}

\* CriticAgent._identify_issues: the type and the severity of every issue
identify_issues(recommendations, genre_preferences) ==
    IF recommendations = <<>>
    THEN <<[type |-> "no_recommendations", severity |-> "critical"]>>
    ELSE ArtistIssues(CountArtists(recommendations, <<>>))
         \o (IF Cardinality({recommendations[k].genre : k \in DOMAIN recommendations}) = 1
                 /\ Len(recommendations) > 5
              THEN <<[type |-> "genre_imbalance", severity |-> "low"]>> ELSE <<>>)
         \o (IF FLess(FVariance([k \in DOMAIN recommendations |->
                                    Get(recommendations[k], "energy", Half)]),
                       Pct(1))
              THEN <<[type |-> "low_variety", severity |-> "low"]>> ELSE <<>>)
         \o (IF genre_preferences # <<>>
                 /\ top_user_genres(genre_preferences)
                        \cap {recommendations[k].genre : k \in DOMAIN recommendations} = {}
              THEN <<[type |-> "genre_mismatch", severity |-> "medium"]>> ELSE <<>>)

Genres == {"pop", "rock", "jazz", "folk"}

\* the genre preferences of a profile, in the insertion order of the dict
\* (the order in which the genres occur first in the history): every order
\* of up to four genres, with weights that rise or fall along that order
GenreOrders ==
    UNION {{order \in [1 .. n -> Genres] :
                \A i, j \in 1 .. n : i # j => order[i] # order[j]} : n \in 0 .. 4}

PreferenceItems ==
    {[k \in DOMAIN order |->
         [genre |-> order[k],
          weight |-> Frac(IF rising THEN k ELSE Len(order) + 1 - k,
                          (Len(order) * (Len(order) + 1)) \div 2)]] :
        order \in GenreOrders, rising \in BOOLEAN}

\* the recommendation lists evaluated: n songs of one genre or of two genres
\* in turn, by one artist or by different artists
EvaluatedLists ==
    {[i \in 1 .. n |->
         [id |-> i, name |-> i, genre |-> IF i % 2 = 1 THEN g[1] ELSE g[2],
          artist |-> IF one_artist THEN "A" ELSE <<"A", "B", "C", "D", "E", "F">>[i],
          energy |-> Pct(15 * i)]] :
        n \in {0, 1, 2, 6}, g \in {<<"folk", "folk">>, <<"pop", "pop">>, <<"pop", "rock">>},
        one_artist \in BOOLEAN}

InitCritic ==
    /\ interactions = [u \in Users |-> <<>>]
    /\ sqlite_interactions = [u \in Users |-> <<>>]
    /\ sqlite_recommendations = <<>>
    /\ ltm = None
    /\ now = 0
    /\ \E recommendations \in EvaluatedLists, genre_preferences \in PreferenceItems :
          call = [op |-> "pending", recommendations |-> recommendations,
                  genre_preferences |-> genre_preferences]
    /\ ret = None
    /\ frame = None
    /\ short_term = NoSessions
    /\ user_memory = NoUserMemory

\* _identify_issues applied to the pending call
CritiquePending ==
    /\ call.op = "pending"
    /\ call' = [call EXCEPT !.op = "identify_issues"]
    /\ ret' = identify_issues(call.recommendations, call.genre_preferences)
    /\ UNCHANGED <<interactions, sqlite_interactions, sqlite_recommendations, ltm, now,
                   frame, short_term, user_memory>>

NextCritic == CritiquePending

SpecCritic == InitCritic /\ [][NextCritic]_vars

----------------------------------------------------------------------------
(* get_recommendations for a user with a taste, on a pop and a rock candidate *)

\* a history from which update_from_interactions computes the genre
\* preferences {pop: 0.8, rock: 0.2}: four likes of a pop song, one of a rock song
TasteHistory ==
    [k \in 1 .. 5 |-> JoinedRow(IF k = 5 THEN "s2" ELSE "s1", "like", NoOptional, 8)]

\* the semantic scores of the two candidates, in hundredths
TasteScores == {10, 30, 50, 70, 90}

\* a pop and a rock candidate with the same semantic score and the same features
TasteCandidates(sem, pop_first) ==
    IF pop_first
    THEN <<Cand(1, sem, "pop", "C", 50, 50), Cand(2, sem, "rock", "D", 50, 50)>>
    ELSE <<Cand(1, sem, "rock", "D", 50, 50), Cand(2, sem, "pop", "C", 50, 50)>>

InitCollab ==
    /\ interactions = [u \in Users |-> IF u = "u2" THEN TasteHistory ELSE <<>>]
    /\ sqlite_interactions = [u \in Users |-> <<>>]
    /\ sqlite_recommendations = <<>>
    /\ ltm = None
    /\ now = 0
    /\ \E user_id \in Users, sem \in TasteScores, pop_first \in BOOLEAN,
          request \in Requests :
          \E reranker \in RequestRerankers(2, request.enable_reranking) :
              call = [op |-> "pending", user_id |-> user_id,
                      candidates |-> TasteCandidates(sem, pop_first),
                      request |-> request, reranker |-> reranker]
    /\ ret = None
    /\ frame = None
    /\ short_term = NoSessions
    /\ user_memory = NoUserMemory

\* get_recommendations applied to the pending call
RecommendPending ==
    /\ call.op = "pending"
    /\ GetRecommendations(call.user_id, call.request.session, call.candidates,
                          call.request.enable_time_matching,
                          call.request.enable_reranking, call.request.hour,
                          call.reranker)

NextCollab == RecommendPending

SpecCollab == InitCollab /\ [][NextCollab]_vars

----------------------------------------------------------------------------
(* The time-of-day matcher on every hour of the day *)

\* the song lists handed to boost_songs_by_time
BoostedLists == {songs \in ShortLists : Len(songs) <= 2}

InitTime ==
    /\ interactions = [u \in Users |-> <<>>]
    /\ sqlite_interactions = [u \in Users |-> <<>>]
    /\ sqlite_recommendations = <<>>
    /\ ltm = None
    /\ now = 0
    /\ \E hour \in Hours, songs \in BoostedLists :
          call = [op |-> "pending", hour |-> hour, songs |-> songs]
    /\ ret = None
    /\ frame = None
    /\ short_term = NoSessions
    /\ user_memory = NoUserMemory

\* TimeOfDayMatcher.boost_songs_by_time applied to the pending call; frame
\* keeps its local variable period
BoostPending ==
    /\ call.op = "pending"
    /\ call' = [call EXCEPT !.op = "boost_songs_by_time"]
    /\ ret' = boost_songs_by_time(call.songs, call.hour)
    /\ frame' = [period |-> get_time_period(call.hour)]
    /\ UNCHANGED <<interactions, sqlite_interactions, sqlite_recommendations, ltm, now,
                   short_term, user_memory>>

NextTime == BoostPending

SpecTime == InitTime /\ [][NextTime]_vars

----------------------------------------------------------------------------
(* The time adjustment of a score, under every configured weight *)

\* base scores, time-match scores and weights of a period: the weights of
\* config.TIME_OF_DAY_FEATURES, and 0, 1/2 and 2 as other configurations
BaseScores == {Zero, Pct(37), Half, Pct(80), One}

TimeMatchScores == {Zero, Pct(45), Pct(75), One}

TimeWeights == {Zero, Half, One, Pct(110), Pct(120), Pct(130), <<2, 1>>}

InitAdjust ==
    /\ interactions = [u \in Users |-> <<>>]
    /\ sqlite_interactions = [u \in Users |-> <<>>]
    /\ sqlite_recommendations = <<>>
    /\ ltm = None
    /\ now = 0
    /\ \/ \E hour \in CurateHours, songs \in BoostedLists :
             call = [op |-> "pending", hour |-> hour, songs |-> songs]
       \/ \E base_score \in BaseScores, time_match_score \in TimeMatchScores,
             time_weight \in TimeWeights :
             call = [op |-> "pending_score", base_score |-> base_score,
                     time_match_score |-> time_match_score, time_weight |-> time_weight]
    /\ ret = None
    /\ frame = None
    /\ short_term = NoSessions
    /\ user_memory = NoUserMemory

\* the weighted combination of adjust_score_for_time on the pending scores
\* and the weight that get_time_weight returned
AdjustPending ==
    /\ call.op = "pending_score"
    /\ call' = [call EXCEPT !.op = "adjust_score_for_time"]
    /\ ret' = adjusted_score(call.base_score, call.time_match_score, call.time_weight)
    /\ UNCHANGED <<interactions, sqlite_interactions, sqlite_recommendations, ltm, now,
                   frame, short_term, user_memory>>

NextAdjust == BoostPending \/ AdjustPending

SpecAdjust == InitAdjust /\ [][NextAdjust]_vars

----------------------------------------------------------------------------
(* ShortTermMemory objects and the calls of their methods *)

\* in these specifications frame is the history of the calls: for every
\* object, what was added to each of its lists, in the order of the calls
NoCalls ==
    [key \in SessionKeys |->
        [current_queries |-> <<>>, recent_interactions |-> <<>>,
         conversation_context |-> <<>>, temporary_preferences |-> <<>>]]

\* the text of the k-th entry added in a session
EntryText(key, k) == [session_id |-> key[2], k |-> k]

InitSTM ==
    /\ interactions = [u \in Users |-> <<>>]
    /\ sqlite_interactions = [u \in Users |-> <<>>]
    /\ sqlite_recommendations = <<>>
    /\ ltm = None
    /\ now = 0
    /\ call = [op |-> "init"]
    /\ ret = None
    /\ frame = NoCalls
    /\ short_term = NoSessions
    /\ user_memory = NoUserMemory

\* memory = get_short_term_memory(user_id, session_id), once for a session
STMGet(key) ==
    /\ short_term[key] = None
    /\ short_term' = [short_term EXCEPT ![key] = get_short_term_memory(key[1], key[2])]
    /\ call' = [op |-> "get_short_term_memory", key |-> key]
    /\ UNCHANGED <<interactions, sqlite_interactions, sqlite_recommendations, ltm, now,
                   ret, frame, user_memory>>

\* memory.add_query(query), while fewer than limit queries were added
STMAddQuery(key, limit) ==
    /\ short_term[key] # None
    /\ Len(frame[key].current_queries) < limit
    /\ \E query \in {EntryText(key, Len(frame[key].current_queries) + 1)} :
          /\ short_term' = [short_term EXCEPT ![key] = add_query(@, query)]
          /\ frame' = [frame EXCEPT ![key].current_queries = Append(@, query)]
    /\ call' = [op |-> "add_query", key |-> key]
    /\ UNCHANGED <<interactions, sqlite_interactions, sqlite_recommendations, ltm, now,
                   ret, user_memory>>

\* memory.add_interaction(song_id, 'play'), while fewer than limit
\* interactions were added; the new point gets the greatest id of the collection
STMAddInteraction(key, limit) ==
    /\ short_term[key] # None
    /\ Len(frame[key].recent_interactions) < limit
    /\ \E song_id \in {EntryText(key, Len(frame[key].recent_interactions) + 1)} :
          /\ short_term' = [short_term EXCEPT
                               ![key] = add_interaction(@, song_id, "play", NoOptional)]
          /\ frame' = [frame EXCEPT ![key].recent_interactions = Append(@, song_id)]
          /\ interactions' =
                [interactions EXCEPT
                    ![key[1]] = qdrant_add_interaction(@, Len(@) + 1, key[1], song_id,
                                                       "play", NoOptional)]
    /\ call' = [op |-> "add_interaction", key |-> key]
    /\ UNCHANGED <<sqlite_interactions, sqlite_recommendations, ltm, now, ret, user_memory>>

\* memory.add_conversation_turn('user', content), while fewer than limit
\* turns were added
STMAddTurn(key, limit) ==
    /\ short_term[key] # None
    /\ Len(frame[key].conversation_context) < limit
    /\ \E content \in {EntryText(key, Len(frame[key].conversation_context) + 1)} :
          /\ short_term' = [short_term EXCEPT
                               ![key] = add_conversation_turn(@, "user", content)]
          /\ frame' = [frame EXCEPT ![key].conversation_context = Append(@, content)]
    /\ call' = [op |-> "add_conversation_turn", key |-> key]
    /\ UNCHANGED <<interactions, sqlite_interactions, sqlite_recommendations, ltm, now,
                   ret, user_memory>>

\* one session, with every list filled beyond its cap
NextSTM ==
    \E key \in {<<"u1", "session1">>} :
        \/ STMGet(key)
        \/ STMAddQuery(key, QUERY_CAP + MaxOverCap)
        \/ STMAddInteraction(key, SHORT_TERM_MEMORY_WINDOW + MaxOverCap)
        \/ STMAddTurn(key, CONVERSATION_CAP + MaxOverCap)

SpecSTM == InitSTM /\ [][NextSTM]_vars

\* memory.update_temporary_preference('mood', value), once for a session
STMSetPreference(key) ==
    /\ short_term[key] # None
    /\ frame[key].temporary_preferences = <<>>
    /\ \E value \in {EntryText(key, 1)} :
          /\ short_term' = [short_term EXCEPT
                               ![key] = update_temporary_preference(@, "mood", value)]
          /\ frame' = [frame EXCEPT ![key].temporary_preferences = Append(@, value)]
    /\ call' = [op |-> "update_temporary_preference", key |-> key]
    /\ UNCHANGED <<interactions, sqlite_interactions, sqlite_recommendations, ltm, now,
                   ret, user_memory>>

\* memory.save_to_database()
STMSave(key) ==
    /\ short_term[key] # None
    /\ user_memory' = short_term_save_to_database(user_memory, short_term[key])
    /\ call' = [op |-> "save_to_database", key |-> key]
    /\ UNCHANGED <<interactions, sqlite_interactions, sqlite_recommendations, ltm, now,
                   ret, frame, short_term>>

\* the two sessions of one user
NextSessions ==
    \E key \in {"u1"} \X Sessions :
        \/ STMGet(key)
        \/ STMAddQuery(key, MaxSessionAdds)
        \/ STMAddInteraction(key, MaxSessionAdds)
        \/ STMAddTurn(key, MaxSessionAdds)
        \/ STMSetPreference(key)
        \/ STMSave(key)

SpecSessions == InitSTM /\ [][NextSessions]_vars

----------------------------------------------------------------------------
(* A LongTermMemory object against a growing interaction history *)

\* records with the keys update_from_interactions reads, by which the
\* history handed to it grows
HistoryRecords ==
    {JoinedRow("s1", "like", NoOptional, 8),
     JoinedRow("s1", "dislike", NoOptional, 8)}

\* what the store holds at the start: nothing, a rated song of another genre,
\* or a payload as QdrantStorage.add_interaction has stored it
InitialHistories ==
    {<<>>,
     <<JoinedRow("s2", "rate", [rating |-> 5], 23)>>,
     <<QdrantPayload("u1", "s1", "like", NoOptional)>>}

InitLTM ==
    /\ \E history \in InitialHistories :
          interactions = [u \in Users |-> IF u = "u1" THEN history ELSE <<>>]
    /\ sqlite_interactions = [u \in Users |-> <<>>]
    /\ sqlite_recommendations = <<>>
    /\ ltm = None
    /\ now = 0
    /\ call = [op |-> "init"]
    /\ ret = None
    /\ frame = None
    /\ short_term = NoSessions
    /\ user_memory = NoUserMemory

\* LongTermMemory("u1")
LTMConstruct ==
    /\ ltm' = NewLongTermMemory("u1")
    /\ call' = [op |-> "LongTermMemory"]
    /\ ret' = None
    /\ frame' = None
    /\ UNCHANGED <<interactions, sqlite_interactions, sqlite_recommendations, now,
                   short_term, user_memory>>

\* the store returns one more record for the user
LTMStoreGrows(record) ==
    /\ Len(interactions["u1"]) < MaxHistory
    /\ interactions' = [interactions EXCEPT !["u1"] = Append(@, record)]
    /\ call' = [op |-> "store_grows"]
    /\ ret' = None
    /\ frame' = None
    /\ UNCHANGED <<sqlite_interactions, sqlite_recommendations, ltm, now,
                   short_term, user_memory>>

\* ltm.update_from_interactions(force); the clock read by save_to_database may
\* have advanced since it was read last
LTMUpdate(force, clock) ==
    /\ ltm # None
    /\ \E all_interactions \in {get_user_interactions(interactions, ltm.user)} :
       \E updated \in {update_from_interactions(ltm.profile, all_interactions, force, clock)} :
          /\ ltm' = [ltm EXCEPT !.profile = updated.profile]
          /\ now' = IF updated.outcome = "updated" THEN clock ELSE now
          /\ call' = [op |-> "update_from_interactions", force |-> force,
                      all_interactions |-> all_interactions]
          /\ ret' = [outcome |-> updated.outcome]
          /\ frame' = [before |-> ltm.profile]
    /\ UNCHANGED <<interactions, sqlite_interactions, sqlite_recommendations,
                   short_term, user_memory>>

NextLTM ==
    \/ LTMConstruct
    \/ \E record \in HistoryRecords : LTMStoreGrows(record)
    \/ \E force \in BOOLEAN, clock \in {now, Min(now + 1, MaxClock)} : LTMUpdate(force, clock)

SpecLTM == InitLTM /\ [][NextLTM]_vars

----------------------------------------------------------------------------
(* Recomputation of the profile of a user with a long history *)

\* a history one record short of the default limit of get_user_interactions:
\* views (the default action_type of record_feedback) of the two songs
LongHistory ==
    [k \in 1 .. DEFAULT_SCAN_LIMIT - 1 |->
        JoinedRow(IF k % 2 = 0 THEN "s1" ELSE "s2", "view", NoOptional, 8)]

InitScan ==
    /\ interactions = [u \in Users |-> IF u = "u1" THEN LongHistory ELSE <<>>]
    /\ sqlite_interactions = [u \in Users |-> <<>>]
    /\ sqlite_recommendations = <<>>
    /\ ltm = None
    /\ now = 0
    /\ call = [op |-> "init"]
    /\ ret = None
    /\ frame = None
    /\ short_term = NoSessions
    /\ user_memory = NoUserMemory

\* one more event of the user is recorded in the collection
ScanStoreGrows(record) ==
    /\ Len(interactions["u1"]) < DEFAULT_SCAN_LIMIT + MaxOverScan
    /\ interactions' = [interactions EXCEPT !["u1"] = Append(@, record)]
    /\ call' = [op |-> "store_grows"]
    /\ ret' = None
    /\ frame' = None
    /\ UNCHANGED <<sqlite_interactions, sqlite_recommendations, ltm, now,
                   short_term, user_memory>>

NextScan ==
    \/ \E record \in HistoryRecords : ScanStoreGrows(record)
    \/ GetUserProfile("u1")

SpecScan == InitScan /\ [][NextScan]_vars

----------------------------------------------------------------------------
(* calculate_song_match_score on the profiles that a recomputation leaves *)

\* the events of the histories the profiles are computed from
TasteRecords ==
    {JoinedRow("s1", "like", NoOptional, 8), JoinedRow("s2", "like", NoOptional, 8),
     JoinedRow("s1", "dislike", NoOptional, 8), JoinedRow("s2", "dislike", NoOptional, 8)}

TasteHistories == UNION {[1 .. n -> TasteRecords] : n \in 0 .. MaxTaste}

\* the songs matched: of a liked or disliked genre and artist, of a genre and
\* artist the profile has not seen, without genre and artist, and with a
\* feature the profile has no preference for
MatchedSongs ==
    {[genre |-> "pop",  artist |-> "A", features |-> [energy |-> <<4, 5>>, valence |-> <<3, 5>>]],
     [genre |-> "rock", artist |-> "B", features |-> [energy |-> <<1, 2>>, valence |-> <<2, 5>>]],
     [genre |-> "jazz", artist |-> "B", features |-> [energy |-> <<1, 5>>]],
     [genre |-> "jazz", artist |-> "C", features |-> [tempo |-> <<1, 2>>]],
     [genre |-> "",     artist |-> "",  features |-> [energy |-> <<4, 5>>]],
     [genre |-> "",     artist |-> "",  features |-> EmptyDict]}

InitMatch ==
    /\ interactions = [u \in Users |-> <<>>]
    /\ sqlite_interactions = [u \in Users |-> <<>>]
    /\ sqlite_recommendations = <<>>
    /\ \E history \in TasteHistories :
          ltm = [user |-> "u1",
                 profile |-> update_from_interactions(DefaultProfile, history, TRUE, 0).profile]
    /\ now = 0
    /\ \E song \in MatchedSongs : call = [op |-> "pending", song |-> song]
    /\ ret = None
    /\ frame = None
    /\ short_term = NoSessions
    /\ user_memory = NoUserMemory

\* ltm.calculate_song_match_score(song['features'], song.get('genre'),
\* song.get('artist')) on the pending song
MatchPending ==
    /\ call.op = "pending"
    /\ ret' = calculate_song_match_score(ltm.profile, call.song.features,
                                          call.song.genre, call.song.artist)
    /\ call' = [call EXCEPT !.op = "calculate_song_match_score"]
    /\ UNCHANGED <<interactions, sqlite_interactions, sqlite_recommendations, ltm, now,
                   frame, short_term, user_memory>>

NextMatch == MatchPending

SpecMatch == InitMatch /\ [][NextMatch]_vars

----------------------------------------------------------------------------
(* Two recomputations of the profile of one user, interleaved *)

\* the callers of get_long_term_memory(user_id, auto_update=True)
Procs == {"p1", "p2"}

\* in this specification frame holds the locals of every caller: where it
\* is, the history it read, and the profile and outcome of its object
InitRecompute ==
    /\ interactions = [u \in Users |-> <<>>]
    /\ sqlite_interactions = [u \in Users |-> <<>>]
    /\ sqlite_recommendations = <<>>
    /\ ltm = None
    /\ now = 0
    /\ call = [op |-> "init"]
    /\ ret = None
    /\ frame = [p \in Procs |->
                   [pc |-> "start", all_interactions |-> <<>>,
                    profile |-> DefaultProfile, outcome |-> "none"]]
    /\ short_term = NoSessions
    /\ user_memory = NoUserMemory

\* the store returns one more record for the user
RecomputeStoreGrows(record) ==
    /\ Len(interactions["u1"]) < MaxHistory
    /\ interactions' = [interactions EXCEPT !["u1"] = Append(@, record)]
    /\ call' = [op |-> "store_grows"]
    /\ UNCHANGED <<sqlite_interactions, sqlite_recommendations, ltm, now, ret, frame,
                   short_term, user_memory>>

\* LongTermMemory("u1") and the first statement of update_from_interactions:
\* the object is loaded and the history is read
RecomputeRead(p) ==
    /\ frame[p].pc = "start"
    /\ frame' = [frame EXCEPT
                    ![p] = [pc |-> "read",
                            all_interactions |-> get_user_interactions(interactions, "u1"),
                            profile |-> NewLongTermMemory("u1").profile,
                            outcome |-> "none"]]
    /\ call' = [op |-> "get_user_interactions", proc |-> p]
    /\ UNCHANGED <<interactions, sqlite_interactions, sqlite_recommendations, ltm, now, ret,
                   short_term, user_memory>>

\* the rest of update_from_interactions: the profile is computed from the
\* history read and, unless the update returned early or raised, handed to
\* update_user_memory by save_to_database
RecomputeWrite(p) ==
    /\ frame[p].pc = "read"
    /\ \E updated \in {update_from_interactions(frame[p].profile,
                                                frame[p].all_interactions, FALSE, now)} :
          /\ frame' = [frame EXCEPT
                          ![p] = [pc |-> "done",
                                  all_interactions |-> frame[p].all_interactions,
                                  profile |-> updated.profile,
                                  outcome |-> updated.outcome]]
          /\ user_memory' =
                IF updated.outcome = "updated"
                THEN update_user_memory(user_memory, "u1", updated.profile, None)
                ELSE user_memory
          /\ ltm' = [user |-> "u1", profile |-> updated.profile]
    /\ call' = [op |-> "update_from_interactions", proc |-> p]
    /\ UNCHANGED <<interactions, sqlite_interactions, sqlite_recommendations, now, ret,
                   short_term>>

NextRecompute ==
    \/ \E record \in HistoryRecords : RecomputeStoreGrows(record)
    \/ \E p \in Procs : RecomputeRead(p)
    \/ \E p \in Procs : RecomputeWrite(p)

SpecRecompute == InitRecompute /\ [][NextRecompute]_vars

----------------------------------------------------------------------------
(* src/api/flask_app.py: POST /api/recommendations *)

\* a JSON object from the optional values of its keys (<<v>>, or <<>> for a
\* key that is absent or null)
JsonObject(optional) ==
    [json |-> "object",
     fields |-> [key \in {k \in DOMAIN optional : optional[k] # <<>>} |-> optional[key][1]]]

\* what request.json is: None for the body 'null', or an object in which each
\* key is absent, falsy or given
RequestBodies ==
    {[json |-> "null"]} \cup
    {JsonObject(optional) :
        optional \in [user_id : {<<>>, <<"">>, <<"u1">>},
                      query : {<<>>, <<"query">>},
                      session_id : {<<>>, <<"session1">>},
                      enable_time_matching : {<<>>},
                      enable_reranking : {<<>>, <<FALSE>>}]}

\* 'not user_id or not query'
required_missing(fields) ==
    \/ ~Has(fields, "user_id") \/ fields.user_id = ""
    \/ ~Has(fields, "query") \/ fields.query = ""

\* jsonify({'error': 'user_id and query are required'}), 400
BadRequest == [status |-> 400, body |-> [error |-> "user_id and query are required"]]

\* the response of Flask to an exception raised outside the handler's try
InternalServerError(exception) == [status |-> 500, raised |-> exception]

InitApi ==
    /\ interactions \in InitialStores
    /\ sqlite_interactions = [u \in Users |-> <<>>]
    /\ sqlite_recommendations = <<>>
    /\ ltm = None
    /\ now = 0
    /\ \E data \in RequestBodies : call = [op |-> "request", data |-> data]
    /\ ret = None
    /\ frame = None
    /\ short_term = NoSessions
    /\ user_memory = NoUserMemory

\* the next request arrives
ApiArrive(data) ==
    /\ call.op # "request"
    /\ call' = [op |-> "request", data |-> data]
    /\ UNCHANGED <<interactions, sqlite_interactions, sqlite_recommendations, ltm, now,
                   ret, frame, short_term, user_memory>>

\* flask_app.get_recommendations on the request that arrived: data.get on a
\* body that is no object raises AttributeError before the try; a request
\* that passes the test is handed to rec_system.get_recommendations, whose
\* result or exception (answered with 500) is left in ret
ApiHandle(candidates, hour, reranker) ==
    /\ call.op = "request"
    /\ IF call.data.json # "object" \/ required_missing(call.data.fields)
       THEN /\ ret' = IF call.data.json # "object"
                      THEN InternalServerError("AttributeError") ELSE BadRequest
            /\ call' = [op |-> "rejected", data |-> call.data]
            /\ frame' = [stages_run |-> {}]
            /\ UNCHANGED <<interactions, sqlite_interactions, sqlite_recommendations,
                           ltm, now, short_term, user_memory>>
       ELSE GetRecommendations(call.data.fields.user_id,
                               Has(call.data.fields, "session_id"), candidates,
                               Get(call.data.fields, "enable_time_matching", TRUE),
                               Get(call.data.fields, "enable_reranking", TRUE),
                               hour, reranker)

NextApi ==
    \/ \E data \in RequestBodies : ApiArrive(data)
    \/ /\ call.op = "request"
       /\ \E candidates \in RetrievedCandidates :
          \E reranker \in RequestRerankers(Len(candidates), TRUE) \cup {NotCalled} :
              /\ reranker.called <=>
                    (/\ call.data.json = "object"
                     /\ Get(call.data.fields, "enable_reranking", TRUE)
                     /\ candidates # <<>>)
              /\ ApiHandle(candidates, 22, reranker)

SpecApi == InitApi /\ [][NextApi]_vars

----------------------------------------------------------------------------
(* Claims about the orchestrator, under Spec *)

Recommended == call.op = "get_recommendations"

\* C3: when the reranker call raises and the candidate list is non-empty,
\* get_recommendations returns success=true with a non-empty recommendation
\* list, and the returned metadata marks reranking as not applied
C3_GracefulDegradation ==
    (Recommended /\ call.candidates # <<>> /\ call.reranker.raises) =>
        /\ ret.raised = "none"
        /\ Has(ret.value, "success") /\ ret.value.success
        /\ ret.value.recommendations # <<>>
        /\ ~ret.value.pipeline_trace.stages.curation.metadata.reranking_enabled
        /\ "Cohere Reranking"
              \notin Range(ret.value.pipeline_trace.stages.curation.reasoning.steps)

\* C4: when retrieval yields zero candidates, get_recommendations raises no
\* exception and returns success=false, an empty recommendation list and a
\* message, and runs none of the stages after retrieval
C4_ZeroCandidates ==
    (Recommended /\ call.candidates = <<>>) =>
        /\ ret.raised = "none"
        /\ ret.value.recommendations = <<>>
        /\ Has(ret.value, "message")
        /\ frame.stages_run = {"retrieval"}
        /\ Has(ret.value, "success") /\ ~ret.value.success

Recorded == call.op = "record_feedback"

\* the row and the payload of the event of the last record_feedback
RecordedRow == SqliteRow(call.user_id, call.song_id, call.action_type, call.optional)

RecordedPayload == QdrantPayload(call.user_id, call.song_id, call.action_type, call.optional)

\* C10 as stated: calling record_feedback again for the same event leaves the
\* interaction history as one call left it
C10_Original ==
    [][(Recorded /\ call'.op = "record_feedback" /\ call' = call) =>
          /\ sqlite_interactions' = sqlite_interactions
          /\ interactions' = interactions]_vars

\* C10 amended: recording feedback is not idempotent: every call of
\* record_feedback appends one row to the user's SQLite interaction history
\* and, when a session id is given, adds one payload to the user's Qdrant
\* collection, also when the same event was recorded before
C10_AppendsEveryCall ==
    Recorded =>
        /\ sqlite_interactions[call.user_id] = Append(frame.sqlite_before, RecordedRow)
        /\ call.session =>
              /\ Len(interactions[call.user_id]) = Len(frame.qdrant_before) + 1
              /\ \E k \in DOMAIN interactions[call.user_id] :
                    interactions[call.user_id][k] = RecordedPayload
        /\ ~call.session => interactions[call.user_id] = frame.qdrant_before

\* C10 witness: the event recorded last had been recorded by the call before,
\* and is twice in both histories
C10_Witness ==
    /\ Recorded
    /\ call.session
    /\ frame.sqlite_before # <<>>
    /\ frame.sqlite_before[Len(frame.sqlite_before)] = RecordedRow
    /\ Cardinality({k \in DOMAIN interactions[call.user_id] :
                       interactions[call.user_id][k] = RecordedPayload}) = 2

----------------------------------------------------------------------------
(* Claims about the classification of events, under SpecFeedback *)

\* the kind of an event, under whichever key the record holds it
KindOf(i) == IF Has(i, "action_type") THEN i.action_type ELSE i.interaction_type

\* C9: in the recomputation that record_feedback starts, every event of the
\* history counts as liked iff rating >= 4 or its kind is like, play or save,
\* and as disliked iff rating <= 2 or its kind is dislike (so a skip without
\* such a rating is not disliked), for every kind and optional rating
C9_LikedDisliked ==
    Recorded =>
        \A k \in DOMAIN frame.all_interactions :
            \A i \in {frame.all_interactions[k]} :
                /\ LikedCond(i) =
                      Bool((Has(i, "rating") /\ i.rating >= 4)
                           \/ KindOf(i) \in {"like", "play", "save"})
                /\ DislikedCond(i) =
                      Bool((Has(i, "rating") /\ i.rating <= 2) \/ KindOf(i) = "dislike")

----------------------------------------------------------------------------
(* Claims about the curation pipeline, under SpecCurate *)

Curated == call.op = "curate_recommendations"

\* C1 as stated: for every call of the curation pipeline
\* len(final) <= final_count <= prerank_count <= len(input candidates)
C1_Original ==
    Curated =>
        /\ Len(ret.recommendations) <= FINAL_RECOMMENDATION_COUNT
        /\ FINAL_RECOMMENDATION_COUNT <= CURATOR_PRERANK_COUNT
        /\ CURATOR_PRERANK_COUNT <= Len(call.candidates)

\* C1 amended: for every call of the curation pipeline
\* len(final) <= final_count <= prerank_count, and
\* len(final) <= len(prerank list) = min(prerank_count, len(input candidates));
\* the input may hold fewer candidates than prerank_count or final_count
C1_MonotonicTruncation ==
    Curated =>
        /\ Len(ret.recommendations) <= FINAL_RECOMMENDATION_COUNT
        /\ FINAL_RECOMMENDATION_COUNT <= CURATOR_PRERANK_COUNT
        /\ Len(ret.recommendations) <= Len(frame.top_candidates)
        /\ Len(frame.top_candidates) = Min(CURATOR_PRERANK_COUNT, Len(call.candidates))
        /\ ret.metadata.final_count = Len(ret.recommendations)
        /\ ret.metadata.prerank_count = Len(frame.top_candidates)
        /\ ret.metadata.total_candidates = Len(call.candidates)

\* C1 witness: more candidates than prerank_count were cut to prerank_count,
\* and the reranker returned final_count of them
C1_Witness ==
    /\ Curated
    /\ Len(call.candidates) > CURATOR_PRERANK_COUNT
    /\ Len(frame.top_candidates) = CURATOR_PRERANK_COUNT
    /\ call.reranker.called /\ ~call.reranker.raises
    /\ Len(ret.recommendations) = FINAL_RECOMMENDATION_COUNT

DescendingByScore(songs) ==
    \A i \in 1 .. Len(songs) - 1 : FLeq(songs[i + 1].score, songs[i].score)

\* the recommendations of the same call with reranking disabled
WithoutReranking ==
    curate_recommendations(call.candidates,
        get_long_term_memory(interactions, call.user_id, FALSE, now).profile,
        call.enable_time_matching, FALSE, call.hour, NotCalled).result.recommendations

\* C2: when the reranker call raises, or reranking is disabled, the final list
\* is the first final_count items of the prerank list in its descending score
\* order, and a raising reranker gives the list that disabled reranking gives
C2_RerankFallback ==
    (Curated /\ (call.reranker.raises \/ ~call.enable_reranking)) =>
        /\ ret.recommendations = Prefix(frame.top_candidates, FINAL_RECOMMENDATION_COUNT)
        /\ DescendingByScore(ret.recommendations)
        /\ call.reranker.raises => ret.recommendations = WithoutReranking

\* C2 witness: the reranker raised on a prerank list longer than final_count
C2_Witness ==
    /\ Curated
    /\ call.enable_reranking /\ call.reranker.raises
    /\ Len(frame.top_candidates) > FINAL_RECOMMENDATION_COUNT
    /\ Len(ret.recommendations) = FINAL_RECOMMENDATION_COUNT
    /\ \E i \in 1 .. Len(ret.recommendations) - 1 :
          FLess(ret.recommendations[i + 1].score, ret.recommendations[i].score)

----------------------------------------------------------------------------
(* Claims about the long-term profile, under SpecLTM *)

IsUpdate == call.op = "update_from_interactions"

\* interactions recorded since the object's profile was updated last
NewInteractions == Len(call.all_interactions) - frame.before.total_interactions

\* the update got past its early returns: the recomputation was run
Recomputed == ret.outcome \in {"updated", "KeyError"}

\* what a recomputation of a history makes of an empty profile
FromHistory(all_interactions) ==
    update_from_interactions(DefaultProfile, all_interactions, TRUE, now).profile

WeightSum(genre_preferences) ==
    LET Weight(g) == genre_preferences[g]
    IN  FSum(MapSeq(Weight, SeqOfSet(DOMAIN genre_preferences)))

\* C6: in every state the genre weights of the profile are non-negative and
\* sum to 1, or the genre mapping is empty
C6_GenreWeightsNormalised ==
    ltm # None =>
        LET genre_preferences == ltm.profile.genre_preferences
        IN  /\ \A g \in DOMAIN genre_preferences : FLeq(Zero, genre_preferences[g])
            /\ genre_preferences = EmptyDict \/ WeightSum(genre_preferences) = One

\* C6 witness: a recomputed profile with two genres, one clamped to weight 0
C6_Witness ==
    /\ ltm # None
    /\ Cardinality(DOMAIN ltm.profile.genre_preferences) = 2
    /\ \E g \in DOMAIN ltm.profile.genre_preferences :
          ltm.profile.genre_preferences[g] = Zero

SecondUpdate == IsUpdate /\ ret.outcome = "updated" /\ call'.op = "update_from_interactions"

Unstamped(profile) == [profile EXCEPT !.last_updated = None]

----------------------------------------------------------------------------
(* Claims about the determinism of the curation pipeline, under SpecCurate *)

\* the result of the curation call with the clock reading another hour
CuratedAt(hour) ==
    curate_recommendations(call.candidates,
        get_long_term_memory(interactions, call.user_id, FALSE, now).profile,
        call.enable_time_matching, call.enable_reranking, hour, call.reranker).result

\* the last and the first hour of every period
BoundaryHours == {4, 5, 11, 12, 16, 17, 21, 22}

\* C11 as stated: with the candidate list, the profile, the flags and the
\* reranker's response fixed, the ranked output and its scores are the same
\* whatever else differs between two runs, the hour of the clock included
C11_Original == Curated => \A hour \in CurateHours : CuratedAt(hour) = ret

\* C11 amended: with the candidate list, the profile, the flags and the
\* reranker's response fixed, two runs produce the same ranked output with the
\* same scores when time matching is disabled or the clock reads an hour of
\* the same time-of-day period in both; the hour influences the result through
\* its period only
C11_DeterministicGivenPeriod ==
    Curated =>
        \A hour \in BoundaryHours :
            (~call.enable_time_matching
             \/ get_time_period(hour) = get_time_period(call.hour))
                => CuratedAt(hour) = ret

\* C11 witness: a time-matched curation at 4 o'clock whose ranking is the one
\* of 22 o'clock and not the one of 5 o'clock
C11_Witness ==
    /\ Curated
    /\ call.enable_time_matching
    /\ call.hour = 4
    /\ Len(ret.recommendations) >= 2
    /\ CuratedAt(22) = ret
    /\ CuratedAt(5).recommendations # ret.recommendations

----------------------------------------------------------------------------
(* Claims about the time-of-day matcher, under SpecTime *)

Boosted == call.op = "boost_songs_by_time"

\* the periods whose configured range holds the hour
MatchingPeriods(hour) ==
    {period \in Range(TIME_PERIODS) :
        InRange(hour, TIME_OF_DAY_FEATURES[period].hour_range)}

\* C12: every hour in 0..23 lies in the range of exactly one period, start
\* inclusive and end exclusive, the wrapping range of the night matched by
\* hour >= 22 or hour < 5, and get_time_period yields that period: the period
\* changes exactly at 5, 12, 17 and 22 o'clock; every boosted song is tagged
\* with it
C12_TimePeriod ==
    Boosted =>
        /\ MatchingPeriods(call.hour) = {frame.period}
        /\ frame.period =
              (IF call.hour >= 22 \/ call.hour < 5 THEN "night"
               ELSE IF call.hour < 12 THEN "morning"
               ELSE IF call.hour < 17 THEN "afternoon"
               ELSE "evening")
        /\ \A k \in DOMAIN ret : ret[k].time_period = frame.period

\* C12 witness: songs boosted at 12 o'clock, the end of the morning range and
\* the start of the afternoon range, are tagged afternoon
C12_Witness ==
    /\ Boosted
    /\ call.hour = 12
    /\ Len(ret) = 2
    /\ ret[1].time_period = "afternoon"

----------------------------------------------------------------------------
(* Claims about the scorers of the orchestrated pipeline, under Spec *)

\* C13: a request of a user with zero recorded interactions and a non-empty
\* candidate list completes without raising, and every recommended song
\* carries the neutral profile-match score 0.5 and the neutral genre score 0.5
C13_NeutralDefaults ==
    (/\ Recommended
     /\ call.candidates # <<>>
     /\ interactions[call.user_id] = <<>>
     /\ sqlite_interactions[call.user_id] = <<>>) =>
        /\ ret.raised = "none"
        /\ ret.value.success
        /\ \A k \in DOMAIN ret.value.recommendations :
              /\ ret.value.recommendations[k].profile_score = Half
              /\ ret.value.recommendations[k].genre_score = Half

\* C13 witness: such a request returned two songs of different genres
C13_Witness ==
    /\ Recommended
    /\ interactions[call.user_id] = <<>>
    /\ sqlite_interactions[call.user_id] = <<>>
    /\ ret.raised = "none"
    /\ Len(ret.value.recommendations) = 2
    /\ ret.value.recommendations[1].genre # ret.value.recommendations[2].genre

----------------------------------------------------------------------------
(* Claims about collaborative scoring, under SpecCollab *)

\* the profile the system reports for the user (get_user_profile)
ReportedProfile(user_id) == get_long_term_memory(interactions, user_id, TRUE, now).profile

\* the combined score the collaborative-scoring stage gave a prerank candidate
CollaborativeScore(song) ==
    IF Has(song, "original_score") THEN song.original_score ELSE song.score

----------------------------------------------------------------------------
(* Claims about the caps of a session, under SpecSTM *)

\* the texts of the entries of a list of a ShortTermMemory object
Texts(entries, field) == [i \in DOMAIN entries |-> entries[i][field]]

\* C15: after any sequence of add_query, add_interaction and
\* add_conversation_turn on a session its query list holds at most 10
\* entries, its interaction list at most window_size (20) and its
\* conversation log at most 20, and each list is exactly the most recent of
\* the entries added, in the order in which they were added
C15_BoundedRecentLists ==
    \A key \in SessionKeys :
        short_term[key] # None =>
            /\ Len(short_term[key].current_queries) <= QUERY_CAP
            /\ Len(short_term[key].recent_interactions) <= SHORT_TERM_MEMORY_WINDOW
            /\ Len(short_term[key].conversation_context) <= CONVERSATION_CAP
            /\ Texts(short_term[key].current_queries, "query")
                  = Suffix(frame[key].current_queries, QUERY_CAP)
            /\ Texts(short_term[key].recent_interactions, "song_id")
                  = Suffix(frame[key].recent_interactions, SHORT_TERM_MEMORY_WINDOW)
            /\ Texts(short_term[key].conversation_context, "content")
                  = Suffix(frame[key].conversation_context, CONVERSATION_CAP)

\* C15 witness: every list of the session has evicted its oldest entry
C15_Witness ==
    \E key \in SessionKeys :
        /\ short_term[key] # None
        /\ Len(frame[key].current_queries) > QUERY_CAP
        /\ Len(frame[key].recent_interactions) > SHORT_TERM_MEMORY_WINDOW
        /\ Len(frame[key].conversation_context) > CONVERSATION_CAP
        /\ short_term[key].current_queries[1].query.k = 2

----------------------------------------------------------------------------
(* Claims about the sessions of a user, under SpecSessions *)

\* every entry and every temporary preference of the object of a session was
\* added in that session
OwnEntriesOnly(key) ==
    \A field \in {"current_queries", "recent_interactions", "conversation_context"} :
        \A i \in DOMAIN short_term[key][field] :
            \A entry \in {short_term[key][field][i]} :
                /\ Has(entry, "query") => entry.query.session_id = key[2]
                /\ Has(entry, "song_id") => entry.song_id.session_id = key[2]
                /\ Has(entry, "content") => entry.content.session_id = key[2]

OwnPreferencesOnly(key) ==
    \A name \in DOMAIN short_term[key].temporary_preferences :
        short_term[key].temporary_preferences[name].session_id = key[2]

\* what the store holds as the state of a session of a user
PersistedSession(store, user_id, session_id) ==
    IF store[user_id] # None /\ store[user_id].short_term.session_id = session_id
    THEN store[user_id].short_term
    ELSE None

----------------------------------------------------------------------------
(* Claims about interleaved recomputations, under SpecRecompute *)

----------------------------------------------------------------------------
(* Claims about the separation of users, under Spec *)

\* what get_user_profile yields for a user: the profile, apart from the time
\* of its computation, or the exception
ProfileViewAt(store, user_id, clock) ==
    [profile |-> Unstamped(get_long_term_memory(store, user_id, TRUE, clock).profile),
     outcome |-> get_long_term_memory(store, user_id, TRUE, clock).outcome]

ProfileView(user_id) == ProfileViewAt(interactions, user_id, now)

\* the sessions of a user
SessionsOf(user_id) == [session_id \in Sessions |-> short_term[<<user_id, session_id>>]]

\* C18: a record_feedback, get_recommendations or get_user_profile (a
\* recompute) of one user leaves the long-term profile, the interaction
\* histories and the session state of every other user unchanged, in every
\* interleaving of the calls of the users
C18_UsersDoNotContend ==
    [][\A other \in Users \ {call'.user_id} :
          /\ interactions'[other] = interactions[other]
          /\ sqlite_interactions'[other] = sqlite_interactions[other]
          /\ user_memory'[other] = user_memory[other]
          /\ SessionsOf(other)' = SessionsOf(other)
          /\ ProfileViewAt(interactions', other, now') = ProfileView(other)]_vars

\* C18 witness: u1 recorded feedback in a session after u2, who has a
\* history and a profile computed from it, had done so
C18_Witness ==
    /\ Recorded
    /\ call.user_id = "u1"
    /\ call.session
    /\ sqlite_interactions["u2"] # <<>>
    /\ interactions["u2"] # <<>>
    /\ ProfileView("u2").outcome = "updated"

----------------------------------------------------------------------------
(* Claims about the explanations, under SpecCurate *)

\* none of the five conditions of the per-song reasoning holds of the song
NoConditionTriggers(song, time_matching, reranking) ==
    /\ FLeq(Get(song, "semantic_score", Zero), Pct(70))
    /\ FLeq(Get(song, "profile_score", Zero), Pct(70))
    /\ FLeq(Get(song, "genre_score", Zero), Pct(60))
    /\ ~(/\ time_matching
          /\ Has(song, "time_adjusted_score")
          /\ FLess(Get(song, "original_score", Zero), song.time_adjusted_score))
    /\ ~(reranking /\ Has(song, "rerank_score") /\ song.rerank_score # Zero)

\* C19: the explanations of a curation are one entry per item of the final
\* list, the i-th entry carrying position i and the i-th song, with at least
\* one reason; an item for which no condition triggers has exactly the one
\* reason 'Matches your query'
C19_OneExplanationEach ==
    Curated =>
        /\ DOMAIN ret.reasoning.song_explanations = DOMAIN ret.recommendations
        /\ \A i \in DOMAIN ret.recommendations :
              /\ ret.reasoning.song_explanations[i].position = i
              /\ ret.reasoning.song_explanations[i].song = ret.recommendations[i].name
              /\ Len(ret.reasoning.song_explanations[i].reasons) >= 1
              /\ NoConditionTriggers(ret.recommendations[i], call.enable_time_matching,
                                     call.enable_reranking)
                    => ret.reasoning.song_explanations[i].reasons = <<"Matches your query">>

\* C19 witness: a final list of two or more songs, one explained by the
\* fallback alone and another by a specific reason
C19_Witness ==
    /\ Curated
    /\ Len(ret.recommendations) >= 2
    /\ \E i, j \in DOMAIN ret.recommendations :
          /\ NoConditionTriggers(ret.recommendations[i], call.enable_time_matching,
                                 call.enable_reranking)
          /\ ret.reasoning.song_explanations[i].reasons = <<"Matches your query">>
          /\ ret.reasoning.song_explanations[j].position = j
          /\ ret.reasoning.song_explanations[j].reasons[1] # "Matches your query"

----------------------------------------------------------------------------
(* Claims about the API, under SpecApi *)

\* the request carries no query or no user id
MissingInput(data) ==
    \/ data.json # "object"
    \/ ~Has(data.fields, "user_id")
    \/ ~Has(data.fields, "query")

\* C20: a recommendation request without a query or without a user id is
\* answered with the 400 error, no stage of the pipeline has run and no
\* store, session or profile has changed
C20_MalformedRejected ==
    [][(call.op = "request" /\ MissingInput(call.data)) =>
          /\ ret' = BadRequest
          /\ frame'.stages_run = {}
          /\ UNCHANGED <<interactions, sqlite_interactions, sqlite_recommendations,
                         short_term, user_memory, ltm>>]_vars

----------------------------------------------------------------------------
(* Claims about the prerank list, under SpecCurate *)

\* the score by which the curator sorts a candidate of the call: the combined
\* score, or the time-adjusted score when time matching is enabled
CurrentScore(candidate) ==
    With(ScoredCandidate(candidate,
             get_long_term_memory(interactions, call.user_id, FALSE, now).profile),
         LAMBDA scored :
            IF call.enable_time_matching
            THEN adjust_score_for_time(scored.score, scored.features, call.hour)
            ELSE scored.score)

\* x stands before y in the descending stable order: its score is greater, or
\* the scores are equal and x came first in the input (id is the input position)
Before(x_score, x_id, y_score, y_id) ==
    FLess(y_score, x_score) \/ (x_score = y_score /\ x_id < y_id)

\* C21: the prerank list holds min(prerank_count, number of candidates) of the
\* input candidates, in descending order of their current score with equal
\* scores in input order, and every candidate left out comes after all of
\* them in that order; with time matching enabled and with it disabled
C21_StablePrerank ==
    Curated =>
        /\ Len(frame.top_candidates) = Min(CURATOR_PRERANK_COUNT, Len(call.candidates))
        /\ \A i \in DOMAIN frame.top_candidates :
              /\ frame.top_candidates[i].id \in DOMAIN call.candidates
              /\ frame.top_candidates[i].score =
                    CurrentScore(call.candidates[frame.top_candidates[i].id])
        /\ \A i, j \in DOMAIN frame.top_candidates :
              i < j => Before(frame.top_candidates[i].score, frame.top_candidates[i].id,
                              frame.top_candidates[j].score, frame.top_candidates[j].id)
        /\ \A k \in DOMAIN call.candidates \ {frame.top_candidates[i].id :
                                                   i \in DOMAIN frame.top_candidates} :
              \A i \in DOMAIN frame.top_candidates :
                  Before(frame.top_candidates[i].score, frame.top_candidates[i].id,
                         CurrentScore(call.candidates[k]), k)

\* C21 witness: with time matching enabled, two candidates of equal
\* time-adjusted score stand in input order behind a candidate that came
\* after them in the input
C21_Witness ==
    /\ Curated
    /\ call.enable_time_matching
    /\ Len(frame.top_candidates) >= 3
    /\ \E i \in DOMAIN frame.top_candidates :
          /\ i + 2 \in DOMAIN frame.top_candidates
          /\ frame.top_candidates[i].id > frame.top_candidates[i + 1].id
          /\ frame.top_candidates[i + 1].score = frame.top_candidates[i + 2].score
          /\ frame.top_candidates[i + 1].id < frame.top_candidates[i + 2].id

----------------------------------------------------------------------------
(* Claims about the feedback loop, under Spec *)

\* C22: the event passed to record_feedback, with or without a session id, is
\* one of the interactions that the profile recomputation of that call reads
C22_EventInHistory ==
    Recorded =>
        \E k \in DOMAIN frame.all_interactions :
            /\ frame.all_interactions[k].song_id = call.song_id
            /\ KindOf(frame.all_interactions[k]) = call.action_type

----------------------------------------------------------------------------
(* Claims about the Profile Store, under SpecCollab *)

----------------------------------------------------------------------------
(* Claims about the history a recomputation reads, under SpecScan *)

----------------------------------------------------------------------------
(* Claims about the profile-match score, under SpecMatch *)

Matched == call.op = "calculate_song_match_score"

\* the genre contribution: the profile's weight for the genre of the song, 0.5
\* for a genre the profile has not seen; none when the song has no genre or
\* the profile no genre preferences
GenreContribution(profile, song) ==
    IF song.genre = "" \/ DOMAIN profile.genre_preferences = {} THEN <<>>
    ELSE IF song.genre \in DOMAIN profile.genre_preferences
    THEN <<profile.genre_preferences[song.genre]>>
    ELSE <<Half>>

\* the feature contribution: the mean similarity over the features of the
\* song for which the profile has a preference; none when there is no such
\* feature
FeatureContribution(profile, song) ==
    With(SeqOfSet(DOMAIN song.features \cap DOMAIN profile.audio_feature_preferences),
         LAMBDA common :
            IF common = <<>> THEN <<>>
            ELSE <<FDivInt(FSum([k \in DOMAIN common |->
                                    FeatureScore(song.features[common[k]],
                                        profile.audio_feature_preferences[common[k]])]),
                           Len(common))>>)

\* the artist contribution: 1 for a liked artist, 0 for a disliked one, none
\* otherwise
ArtistContribution(profile, song) ==
    IF \E k \in DOMAIN profile.liked_artists : profile.liked_artists[k] = song.artist
    THEN <<One>>
    ELSE IF \E k \in DOMAIN profile.disliked_artists :
                profile.disliked_artists[k] = song.artist
    THEN <<Zero>>
    ELSE <<>>

\* C25: the profile-match score of a song is the unweighted mean of the
\* genre, feature and artist contributions that are computable, and 0.5 when
\* none is
C25_MeanOfComputable ==
    Matched =>
        With(GenreContribution(ltm.profile, call.song)
                 \o FeatureContribution(ltm.profile, call.song)
                 \o ArtistContribution(ltm.profile, call.song),
             LAMBDA contributions :
                IF contributions = <<>> THEN ret = Half
                ELSE ret = FDivInt(FSum(contributions), Len(contributions)))

\* C25 witness: a song of a genre the profile has not seen, by a disliked
\* artist, with a feature the profile has a preference for: the mean of 0.5,
\* the feature similarity and 0
C25_Witness ==
    /\ Matched
    /\ GenreContribution(ltm.profile, call.song) = <<Half>>
    /\ ArtistContribution(ltm.profile, call.song) = <<Zero>>
    /\ FeatureContribution(ltm.profile, call.song) # <<>>
    /\ ret = FDivInt(FAdd(Half, FeatureContribution(ltm.profile, call.song)[1]), 3)

----------------------------------------------------------------------------
(* Claims about the time adjustment, under SpecAdjust *)

Adjusted == call.op = "adjust_score_for_time"

\* the score of every song that boost_songs_by_time returns is its
\* time-adjusted score, computed from the score the song came with, which is
\* kept as original_score; the songs are returned in descending order of it
ScoreReplaced ==
    Boosted =>
        /\ \A k \in DOMAIN ret :
              /\ ret[k].original_score = call.songs[ret[k].id].score
              /\ ret[k].time_adjusted_score =
                    FDivInt(FAdd(FMul(ret[k].original_score,
                                      FSub(<<2, 1>>, get_time_weight(call.hour))),
                                 FMul(calculate_time_match_score(ret[k].features, call.hour),
                                      get_time_weight(call.hour))), 2)
              /\ ret[k].score = ret[k].time_adjusted_score
        /\ \A i, j \in DOMAIN ret : i < j => FLeq(ret[j].score, ret[i].score)

\* C26 as stated: the time-adjusted score replaces the score of the song;
\* it is the mean of base and time_match when the weight is 1, and base / 2
\* when the weight is 0
C26_Original ==
    /\ ScoreReplaced
    /\ Adjusted =>
          /\ call.time_weight = One =>
                ret = FDivInt(FAdd(call.base_score, call.time_match_score), 2)
          /\ call.time_weight = Zero => ret = FDivInt(call.base_score, 2)

\* C26 amended: the time-adjusted score replaces the score of the song; it
\* is the mean of base and time_match when the weight is 1, and base itself
\* when the weight is 0
C26_ReplacedAndWeighted ==
    /\ ScoreReplaced
    /\ Adjusted =>
          /\ call.time_weight = One =>
                ret = FDivInt(FAdd(call.base_score, call.time_match_score), 2)
          /\ call.time_weight = Zero => ret = call.base_score

\* C26 witness: with the weight 0 and a time match of 1 the adjustment of
\* the base score 0.8 is 0.8, not 0.4
C26_Witness ==
    /\ Adjusted
    /\ call.time_weight = Zero
    /\ call.time_match_score = One
    /\ call.base_score = Pct(80)
    /\ ret = Pct(80)

----------------------------------------------------------------------------
(* Claims about malformed candidates, under SpecMixed *)

\* the positions of the candidates of the call that cannot be scored
Malformed == {k \in DOMAIN call.candidates : ~Has(call.candidates[k], "features")}

\* C27: when some candidates of a curation cannot be scored, the curation
\* still returns: exactly the other candidates are scored and ranked, and the
\* metadata report the number of candidates dropped
C27_DropsOnlyMalformed ==
    (Curated /\ Malformed # {}) =>
        /\ ret.raised = "none"
        /\ {frame.top_candidates[i].id : i \in DOMAIN frame.top_candidates}
              = DOMAIN call.candidates \ Malformed
        /\ \A i, j \in DOMAIN frame.top_candidates :
              i < j => FLeq(frame.top_candidates[j].score, frame.top_candidates[i].score)
        /\ Has(ret.value.metadata, "dropped_count")
        /\ ret.value.metadata.dropped_count = Cardinality(Malformed)

----------------------------------------------------------------------------
(* Claims about the quality evaluator, under SpecCritic *)

\* the three highest-weighted genres of the preferences (all of them when
\* there are three or fewer; the weights drawn are pairwise different)
HighestWeighted(genre_preferences) ==
    {genre_preferences[k].genre : k \in
        {k \in DOMAIN genre_preferences :
            Cardinality({j \in DOMAIN genre_preferences :
                FLess(genre_preferences[k].weight, genre_preferences[j].weight)}) < 3}}

\* C28: for a user with genre preferences, a genre mismatch of medium
\* severity is among the issues exactly when the result list is not empty
\* and none of its genres is one of the three highest-weighted genres of
\* the user
C28_GenreMismatch ==
    (call.op = "identify_issues" /\ call.genre_preferences # <<>>) =>
        ((\E k \in DOMAIN ret :
              ret[k].type = "genre_mismatch" /\ ret[k].severity = "medium")
         <=> (/\ call.recommendations # <<>>
              /\ HighestWeighted(call.genre_preferences)
                    \cap {call.recommendations[k].genre :
                              k \in DOMAIN call.recommendations} = {}))

----------------------------------------------------------------------------
(* Claims about the metadata of a curation, under SpecCurate *)

\* the final item is the input candidate with the curator's keys added and
\* its 'score' replaced
IsCandidate(item, candidate) ==
    /\ DOMAIN candidate \subseteq DOMAIN item
    /\ \A key \in DOMAIN candidate \ {"score"} : item[key] = candidate[key]

\* C29: the metadata of every curation satisfies final_count <=
\* prerank_count <= total_candidates; prerank_count is the smaller of the
\* configured prerank size and the number of input candidates; when
\* reranking is disabled or the reranker raises, final_count is the smaller
\* of the configured final size and prerank_count; and every final item is
\* one of the input candidates
C29_MetadataChain ==
    call.op = "curate_recommendations" =>
        /\ ret.metadata.total_candidates = Len(call.candidates)
        /\ ret.metadata.final_count = Len(ret.recommendations)
        /\ ret.metadata.final_count <= ret.metadata.prerank_count
        /\ ret.metadata.prerank_count <= ret.metadata.total_candidates
        /\ ret.metadata.prerank_count = Min(CURATOR_PRERANK_COUNT, Len(call.candidates))
        /\ (~call.enable_reranking \/ call.reranker.raises) =>
               ret.metadata.final_count
                   = Min(FINAL_RECOMMENDATION_COUNT, ret.metadata.prerank_count)
        /\ \A k \in DOMAIN ret.recommendations :
               \E i \in DOMAIN call.candidates :
                   IsCandidate(ret.recommendations[k], call.candidates[i])

\* a curation without reranking of more candidates than the prerank size:
\* both truncations act
C29_Witness ==
    /\ call.op = "curate_recommendations"
    /\ ~call.enable_reranking
    /\ ret.metadata.total_candidates > ret.metadata.prerank_count
    /\ ret.metadata.prerank_count > ret.metadata.final_count
    /\ ret.metadata.final_count = FINAL_RECOMMENDATION_COUNT

\* a curation whose reranker raises on more candidates than the final size
C29_WitnessRaises ==
    /\ call.op = "curate_recommendations"
    /\ call.enable_reranking /\ call.reranker.raises
    /\ ret.metadata.prerank_count > ret.metadata.final_count
    /\ ret.metadata.final_count = FINAL_RECOMMENDATION_COUNT

----------------------------------------------------------------------------
(* Claims about total_interactions, under Spec *)

\* a recomputation for the user of the call has just completed
RecomputeCompleted ==
    /\ call.op \in {"record_feedback", "get_user_profile"}
    /\ frame.outcome = "updated"

====
